---- MODULE Spec2Model ----
(***************************************************************************)
(* A model of crayon's frame command pipeline: the TaskBuffer byte arena,  *)
(* the Frame command lists with their dispatch, the double frame and the   *)
(* asynchronous texture loader that appends into the front frame.          *)
(***************************************************************************)
EXTENDS Integers, Sequences, FiniteSets, TLC

VARIABLES
    tb,         \* the TaskBuffer under test: the Vec<u8> it wraps
    live,       \* pointers handed out since the last clear, with the value appended
    nclear,     \* number of clear() calls made so far
    lastOp,     \* the last TaskBuffer operation applied
    res,        \* the last pointer resolved and what resolving it gave
    frames,     \* DoubleFrame: the two Frames (pre, drawcalls, post, buf)
    front,      \* index of the frame producers write
    back,       \* index of the frame the render thread reads
    holder,     \* who holds the guard front() returned: "none" or "loader"
    nswap,      \* swaps made so far
    rpc,        \* render thread: "idle", "pre", "draw", "post", "done", "panicked"
    ri,         \* render thread: index of the next command of the current loop
    table,      \* the device's resource table: the <<kind, handle>> pairs alive
    xlog,       \* the device operations issued so far, in order
    appended,   \* every command ever pushed to a frame, by list and tag
    lpc,        \* texture loader: "start", "front", "extended", "pushed", "end"
    lfr,        \* texture loader: the frame its guard refers to
    lptr,       \* texture loader: the pointer extend_from_slice returned
    asset,      \* the asset state cell: pending, ready with the params, or Err
    lparams,    \* texture loader: self.params
    ltex,       \* texture loader: the texture the parser returned
    ltag,       \* the tag of the command the loader pushed
    readyDraws, \* the tags of the draws recorded after the asset was seen ready
    vis,        \* OpenGLVisitor: the cached state, bindings and object caches
    gl,         \* the OpenGL context the visitor drives
    glu,        \* the state of a context that is sent every requested state call
    vop,        \* the last visitor operation and what it returned
    culls,      \* the set_cull_face requests made so far
    ncull,      \* the cull-face state changes issued to the context so far
    nset,       \* the state-setter calls made so far
    plife,      \* the lifetimes of the program ids create_program returned
    generated,  \* the vertex array objects generated so far for each (program, buffer)
    requested   \* the buffer id most recently asked to be bound to each target

bufVars == <<tb, live, nclear, lastOp, res>>

frameVars == <<frames, front, back, holder, nswap, rpc, ri, table, xlog, appended>>

loaderVars == <<lpc, lfr, lptr, asset, lparams, ltex, ltag, readyDraws>>

visVars == <<vis, gl, glu, vop, culls, ncull, nset, plife, generated, requested>>

vars == <<tb, live, nclear, lastOp, res, frames, front, back, holder, nswap, rpc, ri,
          table, xlog, appended, lpc, lfr, lptr, asset, lparams, ltex,
          ltag, readyDraws, vis, gl, glu, vop, culls, ncull, nset, plife,
          generated, requested>>

-----------------------------------------------------------------------------
(* Bounds of the model.                                                    *)

MaxBufLen == 5      \* appends stop when the buffer would grow beyond this
MaxPtrs == 3        \* pointers handed out between two clears
MaxClears == 1      \* clear() calls in one behaviour
MaxSliceLen == 1    \* elements in an appended slice
MaxStrLen == 1      \* characters in an appended string
MaxCmds == 4        \* commands recorded into one frame when dispatch is studied
MaxAppends == 3     \* commands recorded in one behaviour of the double frame
MaxSwaps == 3       \* swaps in one behaviour of the double frame
MaxSetterCalls == 3 \* state-setter calls in one behaviour of the visitor
MaxBufIds == 1      \* buffer names the context hands out
MaxProgIds == 2     \* program names the context hands out
MaxPrograms == 2    \* program objects created in one behaviour
MaxVaos == 2        \* vertex array objects generated in one behaviour

-----------------------------------------------------------------------------
(* Widths and sizes fixed by the program.                                  *)

SizeOfT == 2        \* mem::size_of::<T>() of the element type modelled, u16
AlignOfT == 2       \* mem::align_of::<T>() of that type

\* The outcome of an operation that may fail: a value, or a failure (an Err
\* returned, or a panic where the code asserts, indexes or unwraps).
Ok(v) == [ok |-> TRUE, val |-> v]
Err == [ok |-> FALSE]

-----------------------------------------------------------------------------
(* Values and their in-memory bytes.                                       *)

\* The values of T appended by value or as slice elements.
TVals == {258, 65535}

\* The characters strings are made of: 'A' (one UTF-8 byte), U+00E9 (two bytes).
Chars == {65, 233}

\* The bytes slice::from_raw_parts(value as *const T as *const u8, size_of::<T>())
\* exposes for a u16 on a little-endian target.
BytesOfT(v) == <<v % 256, v \div 256>>

\* The value a pointer cast *(ptr as *const T) reads back from size_of::<T>() bytes.
TOfBytes(b) == b[1] + 256 * b[2]

RECURSIVE BytesOfSlice(_)
BytesOfSlice(s) ==
    IF s = <<>> THEN <<>> ELSE BytesOfT(Head(s)) \o BytesOfSlice(Tail(s))

\* slice::from_raw_parts(ptr as *const T, len) over a byte range.
RECURSIVE SliceOfBytes(_, _)
SliceOfBytes(b, n) ==
    IF n = 0 THEN <<>>
    ELSE <<TOfBytes(SubSeq(b, 1, SizeOfT))>>
             \o SliceOfBytes(SubSeq(b, SizeOfT + 1, Len(b)), n - 1)

\* str::as_bytes: the UTF-8 encoding of a string of code points below U+0800.
RECURSIVE Utf8Encode(_)
Utf8Encode(s) ==
    IF s = <<>> THEN <<>>
    ELSE LET c == Head(s)
         IN  (IF c < 128 THEN <<c>> ELSE <<192 + (c \div 64), 128 + (c % 64)>>)
                 \o Utf8Encode(Tail(s))

\* str::from_utf8: Ok with the decoded string, or Err on a malformed sequence.
RECURSIVE Utf8Decode(_)
Utf8Decode(b) ==
    IF b = <<>> THEN Ok(<<>>)
    ELSE IF b[1] < 128
         THEN LET rest == Utf8Decode(Tail(b))
              IN  IF rest.ok THEN Ok(<<b[1]>> \o rest.val) ELSE Err
    ELSE IF b[1] >= 194 /\ b[1] < 224 /\ Len(b) >= 2 /\ b[2] >= 128 /\ b[2] < 192
         THEN LET rest == Utf8Decode(SubSeq(b, 3, Len(b)))
              IN  IF rest.ok
                  THEN Ok(<<(b[1] - 192) * 64 + (b[2] - 128)>> \o rest.val)
                  ELSE Err
    ELSE Err

SeqsUpTo(S, n) == UNION {[1..k -> S] : k \in 0..n}

-----------------------------------------------------------------------------
(* TaskBuffer: a Vec<u8>.  mem is the allocation (its length is the        *)
(* capacity), len the vector's length; bytes of mem beyond len are what    *)
(* earlier frames left there.                                              *)

NewBuffer == [mem |-> <<>>, len |-> 0]

\* Vec::clear as called by TaskBuffer::clear: the length drops to zero, the
\* allocation and its bytes stay.
BufClear(b) == [b EXCEPT !.len = 0]

VecExtendAtFront(b, data) ==
    [mem |-> data \o SubSeq(b.mem, 1, b.len)
                 \o SubSeq(b.mem, b.len + Len(data) + 1, Len(b.mem)),
     len |-> b.len + Len(data)]

\* Vec::extend_from_slice: the bytes are written at the tail, growing the
\* allocation when needed; stale bytes beyond the new tail stay.
VecExtend(b, data) ==
    [mem |-> SubSeq(b.mem, 1, b.len) \o data
                 \o SubSeq(b.mem, b.len + Len(data) + 1, Len(b.mem)),
     len |-> b.len + Len(data)]

\* The pointer every extend* returns: position = (len after - size) as u32 and
\* size as u32.  The buffers modelled stay far below 2^32 bytes, so the casts
\* and the u32 sum in as_bytes never wrap.
PtrAfter(b, n) == [position |-> b.len - n, size |-> n]

\* TaskBuffer::extend::<T>.
Extend(b, v) ==
    LET nb == VecExtend(b, BytesOfT(v))
    IN  [buf |-> nb, ptr |-> PtrAfter(nb, SizeOfT)]

\* TaskBuffer::extend_from_slice::<T> for the element type T.
ExtendFromSlice(b, s) ==
    LET n  == SizeOfT * Len(s)
        nb == VecExtend(b, BytesOfSlice(s))
    IN  [buf |-> nb, ptr |-> PtrAfter(nb, n)]

\* TaskBuffer::extend_from_slice::<u8>: the elements are the bytes themselves.
ExtendFromBytes(b, data) ==
    LET nb == VecExtend(b, data)
    IN  [buf |-> nb, ptr |-> PtrAfter(nb, Len(data))]

\* TaskBuffer::extend_from_str: extend_from_slice over the string's bytes, the
\* pointer rebuilt from the slice pointer's position and size.
ExtendFromStr(b, s) ==
    LET slice == ExtendFromBytes(b, Utf8Encode(s))
    IN  [buf |-> slice.buf,
         ptr |-> [position |-> slice.ptr.position, size |-> slice.ptr.size]]

AsBytesWithinCapacity(b, p) ==
    LET end == p.position + p.size
    IN  IF p.position > end \/ end > Len(b.mem) THEN Err
        ELSE Ok(SubSeq(b.mem, p.position + 1, end))

\* TaskBuffer::as_bytes: &self.0[position .. position + size]; the index
\* panics when the range is inverted or ends beyond the vector's length.
AsBytes(b, p) ==
    LET end == p.position + p.size
    IN  IF p.position > end \/ end > b.len THEN Err
        ELSE Ok(SubSeq(b.mem, p.position + 1, end))

\* The allocation of a Vec<u8> is taken to start at an address aligned for T
\* (the allocator's minimum alignment), so the address of a stored value is
\* aligned exactly when its position is.
Aligned(p) == p.position % AlignOfT = 0

\* What reinterpreting the bytes at p as T (a reference or a slice of T made
\* from the byte pointer) can give.  A misaligned reference is undefined
\* behaviour: a build without alignment checks reads the value, a build with
\* them (debug assertions, a strict-alignment target) stops with a fault.
Reinterpret(p, v) == IF Aligned(p) THEN {Ok(v)} ELSE {Ok(v), Err}

\* TaskBuffer::as_ref::<T>: the outcomes; the assert_eq! on the size panics on
\* a mismatch.
AsRef(b, p) ==
    LET bytes == AsBytes(b, p)
    IN  IF ~bytes.ok THEN {Err}
        ELSE IF Len(bytes.val) # SizeOfT THEN {Err}
        ELSE Reinterpret(p, TOfBytes(bytes.val))

\* TaskBuffer::as_slice::<T>: the outcomes.
AsSlice(b, p) ==
    LET bytes == AsBytes(b, p)
    IN  IF ~bytes.ok THEN {Err}
        ELSE LET n == Len(bytes.val) \div SizeOfT
             IN  IF Len(bytes.val) # SizeOfT * n THEN {Err}
                 ELSE Reinterpret(p, SliceOfBytes(bytes.val, n))

\* TaskBuffer::as_str: str::from_utf8(..).unwrap().
AsStr(b, p) ==
    LET bytes == AsBytes(b, p)
    IN  IF ~bytes.ok THEN Err ELSE Utf8Decode(bytes.val)

\* The outcomes of resolving a pointer with the accessor of its kind.
Resolve(b, e) ==
    CASE e.kind = "ref"   -> AsRef(b, e.ptr)
      [] e.kind = "slice" -> AsSlice(b, e.ptr)
      [] e.kind = "str"   -> {AsStr(b, e.ptr)}

\* The outcomes of resolving any pointer with any accessor.
ResolveAs(b, kind, p) ==
    CASE kind = "ref"   -> AsRef(b, p)
      [] kind = "slice" -> AsSlice(b, p)
      [] kind = "bytes" -> {AsBytes(b, p)}

NoRes == [i |-> 0, out |-> Err, kind |-> "none", ptr |-> [position |-> 0, size |-> 0]]

-----------------------------------------------------------------------------
(* The TaskBuffer exercised on its own, as in test::buf.                   *)

InitBuf ==
    /\ tb = NewBuffer
    /\ live = <<>>
    /\ nclear = 0
    /\ lastOp = "new"
    /\ res = NoRes

Room(n) == Len(live) < MaxPtrs /\ tb.len + n <= MaxBufLen

DoExtend ==
    \E v \in TVals :
        /\ Room(SizeOfT)
        /\ LET r == Extend(tb, v)
           IN  /\ tb' = r.buf
               /\ live' = Append(live, [kind |-> "ref", ptr |-> r.ptr, val |-> v])
        /\ lastOp' = "extend"
        /\ res' = NoRes
        /\ UNCHANGED <<nclear, frameVars, loaderVars, visVars>>

DoExtendFromSlice ==
    \E s \in SeqsUpTo(TVals, MaxSliceLen) :
        /\ Room(SizeOfT * Len(s))
        /\ LET r == ExtendFromSlice(tb, s)
           IN  /\ tb' = r.buf
               /\ live' = Append(live, [kind |-> "slice", ptr |-> r.ptr, val |-> s])
        /\ lastOp' = "extend_from_slice"
        /\ res' = NoRes
        /\ UNCHANGED <<nclear, frameVars, loaderVars, visVars>>

DoExtendFromStr ==
    \E s \in SeqsUpTo(Chars, MaxStrLen) :
        /\ Room(Len(Utf8Encode(s)))
        /\ LET r == ExtendFromStr(tb, s)
           IN  /\ tb' = r.buf
               /\ live' = Append(live, [kind |-> "str", ptr |-> r.ptr, val |-> s])
        /\ lastOp' = "extend_from_str"
        /\ res' = NoRes
        /\ UNCHANGED <<nclear, frameVars, loaderVars, visVars>>

DoClear ==
    /\ nclear < MaxClears
    /\ tb' = BufClear(tb)
    /\ live' = <<>>
    /\ nclear' = nclear + 1
    /\ lastOp' = "clear"
    /\ res' = NoRes
    /\ UNCHANGED <<frameVars, loaderVars, visVars>>

\* as_ref, as_slice or as_str on a pointer handed out since the last clear.
DoResolve ==
    /\ \E i \in 1..Len(live) :
           \E out \in Resolve(tb, live[i]) :
               res' = [i |-> i, out |-> out, kind |-> live[i].kind, ptr |-> live[i].ptr]
    /\ UNCHANGED <<tb, live, nclear, lastOp, frameVars, loaderVars, visVars>>

\* The pointers a caller can hold that the buffer did not hand out since its
\* last clear: kept across a clear, taken from another buffer, or of another
\* type than the accessor's.
AnyPtrs == [position : 0..1, size : 1..(SizeOfT + 1)]

\* as_ref, as_slice or as_bytes on any such pointer.
DoResolveAny ==
    /\ \E kind \in {"ref", "slice", "bytes"}, p \in AnyPtrs :
           \E out \in ResolveAs(tb, kind, p) :
               res' = [i |-> 0, out |-> out, kind |-> kind, ptr |-> p]
    /\ UNCHANGED <<tb, live, nclear, lastOp, frameVars, loaderVars, visVars>>

NextBuf ==
    \/ DoExtend
    \/ DoExtendFromSlice
    \/ DoExtendFromStr
    \/ DoClear
    \/ DoResolve
    \/ DoResolveAny

-----------------------------------------------------------------------------
(* Commands and frames.                                                    *)

NoPtr == [position |-> 0, size |-> 0]

NoIb == 0   \* FrameTask.ib = None

\* The resources earlier frames may have left in the device.
AllResources ==
    {<<"view", 1>>, <<"view", 2>>, <<"pipeline", 1>>, <<"vb", 1>>, <<"ib", 1>>}

\* Frame::with_capacity.
NewFrame == [pre |-> <<>>, drawcalls |-> <<>>, post |-> <<>>, buf |-> NewBuffer]

CreateOps == {"CreateView", "CreatePipeline", "CreateVertexBuffer",
              "CreateIndexBuffer", "CreateTexture"}

\* The resource kind a command's handle belongs to.
KindOf(op) ==
    CASE op \in {"CreateView", "UpdateViewRect", "DeleteView"} -> "view"
      [] op \in {"CreatePipeline", "DeletePipeline"} -> "pipeline"
      [] op \in {"CreateVertexBuffer", "DeleteVertexBuffer"} -> "vb"
      [] op \in {"CreateIndexBuffer", "DeleteIndexBuffer"} -> "ib"
      [] op = "CreateTexture" -> "texture"

\* The pre-commands, draws and post-commands the application records when a
\* single dispatch is studied, and the smaller choice used with the double frame.
PreChoices ==
    {[op |-> "CreateView", handle |-> 1], [op |-> "CreateView", handle |-> 2],
     [op |-> "UpdateViewRect", handle |-> 1],
     [op |-> "CreatePipeline", handle |-> 1],
     [op |-> "CreateVertexBuffer", handle |-> 1]}

DrawChoices ==
    {[view |-> 1, pipeline |-> 1, vb |-> 1, ib |-> NoIb,
      uniforms |-> <<[name |-> <<65, 233>>, value |-> 1], [name |-> <<65>>, value |-> 2]>>],
     [view |-> 2, pipeline |-> 1, vb |-> 1, ib |-> NoIb,
      uniforms |-> <<[name |-> <<233>>, value |-> 3]>>],
     [view |-> 1, pipeline |-> 1, vb |-> 1, ib |-> 1,
      uniforms |-> <<[name |-> <<65>>, value |-> 4]>>]}

PostChoices ==
    {[op |-> "DeleteView", handle |-> 1], [op |-> "DeletePipeline", handle |-> 1],
     [op |-> "DeleteVertexBuffer", handle |-> 1],
     [op |-> "DeleteIndexBuffer", handle |-> 1]}

FewPre == {[op |-> "CreateView", handle |-> 1], [op |-> "UpdateViewRect", handle |-> 1]}

FewDraws == {[view |-> 1, pipeline |-> 1, vb |-> 1, ib |-> NoIb, uniforms |-> <<>>]}

FewPost == {[op |-> "DeleteView", handle |-> 1]}

\* The descriptor value recorded with a create command.
DescOf(c) == 256 + c.handle

\* The bytes a parsed texture carries.
TextureBytes == <<7, 9>>

\* What the parser returns for the files loaded, the params the loader is
\* constructed with, and the state cell before the load ends.
ParsedTextures ==
    {[format |-> "U8U8U8", dimensions |-> <<2, 1>>, data |-> TextureBytes],
     [format |-> "U8U8U8U8", dimensions |-> <<1, 1>>, data |-> <<3>>]}

InitParams == [format |-> "U8", dimensions |-> <<0, 0>>]

NoTexture == [format |-> "U8", dimensions |-> <<0, 0>>, data |-> <<>>]

PendingState == [state |-> "pending", params |-> InitParams, message |-> ""]

NoTag == [epoch |-> -1, n |-> 0]

TextureHandle == 1

FrameLen(f) == Len(f.pre) + Len(f.drawcalls) + Len(f.post)

Tag(n) == [epoch |-> nswap, n |-> n]

-----------------------------------------------------------------------------
(* The device behind Frame::dispatch: the resource table.  A create enters *)
(* the handle, an update, bind, draw or delete of a handle that is not in  *)
(* the table fails, a delete removes the handle.                           *)

DeviceCreate(tab, kind, h) == [ok |-> TRUE, table |-> tab \cup {<<kind, h>>}]

DeviceUpdate(tab, kind, h) == [ok |-> <<kind, h>> \in tab, table |-> tab]

DeviceDelete(tab, kind, h) ==
    [ok |-> <<kind, h>> \in tab, table |-> tab \ {<<kind, h>>}]

DeviceBindView(tab, h) == <<"view", h>> \in tab

\* Device::draw: fails without a draw call when the pipeline, the vertex
\* buffer or the index buffer is not in the table.
DeviceDraw(tab, dc) ==
    /\ <<"pipeline", dc.pipeline>> \in tab
    /\ <<"vb", dc.vb>> \in tab
    /\ dc.ib # NoIb => <<"ib", dc.ib>> \in tab

-----------------------------------------------------------------------------
(* DoubleFrame and the application's recording calls.                      *)

InitFrame(tables) ==
    /\ frames = [i \in {0, 1} |-> NewFrame]
    /\ front = 0
    /\ back = 1
    /\ holder = "none"
    /\ nswap = 0
    /\ rpc = "idle"
    /\ ri = 1
    /\ table \in tables
    /\ xlog = <<>>
    /\ appended = {}
    /\ lpc = "start"
    /\ lfr = 0
    /\ lptr = NoPtr
    /\ asset = PendingState
    /\ lparams = InitParams
    /\ ltex = NoTexture
    /\ ltag = NoTag
    /\ readyDraws = {}

\* DoubleFrame::front(): the frame that currently has the front role.
FrontFrame == front

\* swap_and_take_back(): front and back exchange roles in one critical
\* section, taken when no producer holds the front frame's guard; the frame
\* returned is the new back.
SwapRolesFrontOnly ==
    /\ front' = back
    /\ back' = back

SwapRoles ==
    /\ front' = back
    /\ back' = front

Swap(limit) ==
    /\ rpc = "idle"
    /\ holder = "none"
    /\ nswap < limit
    /\ SwapRoles
    /\ nswap' = nswap + 1
    /\ rpc' = "pre"
    /\ ri' = 1
    /\ UNCHANGED <<frames, holder, table, xlog, appended, bufVars, loaderVars, visVars>>

\* A create or update call of the graphics API: the descriptor of a create goes
\* into the front frame's buffer and the command into its pre list.
PushPre(f, c) ==
    IF c.op \in CreateOps
    THEN LET r == Extend(f.buf, DescOf(c))
         IN  [f EXCEPT !.buf = r.buf,
                       !.pre = Append(@, [op |-> c.op, handle |-> c.handle,
                                          ptr |-> r.ptr, tag |-> Tag(Len(f.pre) + 1)])]
    ELSE [f EXCEPT !.pre = Append(@, [op |-> c.op, handle |-> c.handle,
                                      ptr |-> NoPtr, tag |-> Tag(Len(f.pre) + 1)])]

\* An element (TaskBufferPtr<str>, UniformVariable) of a uniform slice as the
\* two bytes of the element type modelled: the position and the size of the
\* name's pointer and the variable.
EncodeUniform(ptr, value) == ptr.position + 64 * ptr.size + 256 * value

NamePtrOf(e) == [position |-> e % 64, size |-> (e \div 64) % 4]

VariableOf(e) == e \div 256

\* The names of a uniform list go into the buffer one by one, each giving
\* the pointer stored in its element.
RECURSIVE PushUniforms(_, _)
PushUniforms(b, uniforms) ==
    IF uniforms = <<>> THEN [buf |-> b, entries |-> <<>>]
    ELSE LET r == ExtendFromStr(b, Head(uniforms).name)
             rest == PushUniforms(r.buf, Tail(uniforms))
         IN  [buf |-> rest.buf,
              entries |-> <<EncodeUniform(r.ptr, Head(uniforms).value)>> \o rest.entries]

\* A draw call of the graphics API: the uniform names and the uniform slice go
\* into the buffer and the FrameTask into the drawcalls list; given keeps the
\* list the caller passed.
PushDraw(f, d) ==
    LET u == PushUniforms(f.buf, d.uniforms)
        r == ExtendFromSlice(u.buf, u.entries)
    IN  [f EXCEPT !.buf = r.buf,
                  !.drawcalls = Append(@, [view |-> d.view, pipeline |-> d.pipeline,
                                           vb |-> d.vb, ib |-> d.ib,
                                           uniforms |-> r.ptr, given |-> d.uniforms,
                                           tag |-> Tag(Len(f.drawcalls) + 1)])]

\* A delete call of the graphics API.
PushPost(f, c) ==
    [f EXCEPT !.post = Append(@, [op |-> c.op, handle |-> c.handle,
                                  tag |-> Tag(Len(f.post) + 1)])]

CanRecord(room) == holder = "none" /\ room

AppendPre(choices, room) ==
    /\ CanRecord(room)
    /\ \E c \in choices :
        /\ frames' = [frames EXCEPT ![FrontFrame] = PushPre(@, c)]
        /\ appended' = appended \cup
               {[list |-> "pre", tag |-> Tag(Len(frames[FrontFrame].pre) + 1)]}
    /\ UNCHANGED <<front, back, holder, nswap, rpc, ri, table, xlog, bufVars, loaderVars, visVars>>

AppendDraw(choices, room) ==
    /\ CanRecord(room)
    /\ \E d \in choices :
        /\ frames' = [frames EXCEPT ![FrontFrame] = PushDraw(@, d)]
        /\ appended' = appended \cup
               {[list |-> "draw", tag |-> Tag(Len(frames[FrontFrame].drawcalls) + 1)]}
    /\ UNCHANGED <<front, back, holder, nswap, rpc, ri, table, xlog, bufVars, loaderVars, visVars>>

AppendPost(choices, room) ==
    /\ CanRecord(room)
    /\ \E c \in choices :
        /\ frames' = [frames EXCEPT ![FrontFrame] = PushPost(@, c)]
        /\ appended' = appended \cup
               {[list |-> "post", tag |-> Tag(Len(frames[FrontFrame].post) + 1)]}
    /\ UNCHANGED <<front, back, holder, nswap, rpc, ri, table, xlog, bufVars, loaderVars, visVars>>

-----------------------------------------------------------------------------
(* Frame::dispatch and Frame::clear, one loop iteration per step.          *)

\* Result::unwrap on a device call made at position pc: the loop goes on after
\* Ok and the thread panics on Err.
Unwrap(ok, pc) == IF ok THEN pc ELSE "panicked"

\* slice::sort_by_key(|dc| dc.view): a stable merge sort; on equal keys the
\* element of the left run goes first.
RECURSIVE MergeRightFirst(_, _)
MergeRightFirst(l, r) ==
    IF l = <<>> THEN r
    ELSE IF r = <<>> THEN l
    ELSE IF Head(r).view <= Head(l).view
         THEN <<Head(r)>> \o MergeRightFirst(l, Tail(r))
         ELSE <<Head(l)>> \o MergeRightFirst(Tail(l), r)

RECURSIVE Merge(_, _)
Merge(l, r) ==
    IF l = <<>> THEN r
    ELSE IF r = <<>> THEN l
    ELSE IF Head(r).view < Head(l).view
         THEN <<Head(r)>> \o Merge(l, Tail(r))
         ELSE <<Head(l)>> \o Merge(Tail(l), r)

RECURSIVE SortByKey(_)
SortByKey(s) ==
    IF Len(s) <= 1 THEN s
    ELSE LET h == Len(s) \div 2
         IN  Merge(SortByKey(SubSeq(s, 1, h)), SortByKey(SubSeq(s, h + 1, Len(s))))

\* One arm of the match over a pre-command: the payload is resolved from the
\* frame's own buffer, then the device is called.
PreOutcome(f, tab, cmd) ==
    LET resolved == CASE cmd.op = "CreateTexture" -> {AsBytes(f.buf, cmd.ptr).ok}
                      [] cmd.op \in CreateOps ->
                             {r.ok : r \in AsRef(f.buf, cmd.ptr)}
                      [] OTHER -> {TRUE}
        call == IF cmd.op \in CreateOps
                THEN DeviceCreate(tab, KindOf(cmd.op), cmd.handle)
                ELSE DeviceUpdate(tab, KindOf(cmd.op), cmd.handle)
    IN  {IF r THEN call ELSE [ok |-> FALSE, table |-> tab] : r \in resolved}

\* What the device was asked: the command, the dispatch it belongs to, the
\* view key of a draw (0 otherwise) and whether the call succeeded.
LogEntry(list, cmd, key, ok, uniforms) ==
    [list |-> list, tag |-> cmd.tag, epoch |-> nswap, key |-> key, ok |-> ok,
     uniforms |-> uniforms]

\* The uniform part of an entry: whether the draw's uniform list was
\* resolved, the list handed to the device and the list the caller recorded.
NoUniforms == [resolved |-> FALSE, passed |-> <<>>, given |-> <<>>]

\* for v in &self.pre: the command the i-th iteration visits.
PreAtReversed(f, i) == f.pre[Len(f.pre) + 1 - i]

PreAt(f, i) == f.pre[i]

\* The order of the three loops of dispatch.
PhaseAfterPostFirst(pc) ==
    CASE pc = "pre" -> "post" [] pc = "post" -> "draw" [] pc = "draw" -> "done"

PhaseAfter(pc) ==
    CASE pc = "pre" -> "draw" [] pc = "draw" -> "post" [] pc = "post" -> "done"

DispatchPre ==
    /\ rpc = "pre"
    /\ ri <= Len(frames[back].pre)
    /\ LET cmd == PreAt(frames[back], ri)
       IN  \E out \in PreOutcome(frames[back], table, cmd) :
               /\ table' = out.table
               /\ xlog' = Append(xlog, LogEntry("pre", cmd, 0, out.ok, NoUniforms))
               /\ rpc' = Unwrap(out.ok, "pre")
               /\ ri' = IF out.ok THEN ri + 1 ELSE ri
    /\ UNCHANGED <<frames, front, back, holder, nswap, appended, bufVars, loaderVars, visVars>>

\* The pre loop is over: the draw calls are sorted in place.
DispatchSort ==
    /\ rpc = "pre"
    /\ ri > Len(frames[back].pre)
    /\ frames' = [frames EXCEPT ![back].drawcalls = SortByKey(@)]
    /\ rpc' = PhaseAfter("pre")
    /\ ri' = 1
    /\ UNCHANGED <<front, back, holder, nswap, table, xlog, appended, bufVars, loaderVars, visVars>>

\* let name = self.buf.as_str(name) for every element of the uniform slice.
RECURSIVE ResolveNames(_, _)
ResolveNames(b, entries) ==
    IF entries = <<>> THEN Ok(<<>>)
    ELSE LET name == AsStr(b, NamePtrOf(Head(entries)))
             rest == ResolveNames(b, Tail(entries))
         IN  IF name.ok /\ rest.ok
             THEN Ok(<<[name |-> name.val, value |-> VariableOf(Head(entries))]>>
                         \o rest.val)
             ELSE Err

\* The vector uniforms of dispatch as the previous iteration of the draw
\* loop left it; it is created empty before the loop.
UniformsVec ==
    IF xlog # <<>> /\ xlog[Len(xlog)].list = "draw" /\ xlog[Len(xlog)].epoch = nswap
    THEN xlog[Len(xlog)].uniforms.passed
    ELSE <<>>

\* uniforms.clear() followed by one push per resolved element.
UniformsKept(vec, resolved) == vec \o resolved

UniformsPassed(vec, resolved) == resolved

\* One draw call: its uniforms are resolved, its view bound, the draw issued.
DrawOutcome(f, tab, dc) ==
    {LET names == IF r.ok THEN ResolveNames(f.buf, r.val) ELSE Err
     IN  IF names.ok
         THEN [ok |-> DeviceBindView(tab, dc.view) /\ DeviceDraw(tab, dc),
               uniforms |-> [resolved |-> TRUE,
                             passed |-> UniformsPassed(UniformsVec, names.val),
                             given |-> dc.given]]
         ELSE [ok |-> FALSE, uniforms |-> [NoUniforms EXCEPT !.given = dc.given]] :
         r \in AsSlice(f.buf, dc.uniforms)}

DispatchDraw ==
    /\ rpc = "draw"
    /\ ri <= Len(frames[back].drawcalls)
    /\ LET dc == frames[back].drawcalls[ri]
       IN  \E out \in DrawOutcome(frames[back], table, dc) :
               /\ xlog' = Append(xlog, LogEntry("draw", dc, dc.view, out.ok, out.uniforms))
               /\ rpc' = Unwrap(out.ok, "draw")
               /\ ri' = IF out.ok THEN ri + 1 ELSE ri
    /\ UNCHANGED <<frames, front, back, holder, nswap, table, appended, bufVars, loaderVars, visVars>>

DispatchDrawEnd ==
    /\ rpc = "draw"
    /\ ri > Len(frames[back].drawcalls)
    /\ rpc' = PhaseAfter("draw")
    /\ ri' = 1
    /\ UNCHANGED <<frames, front, back, holder, nswap, table, xlog, appended,
                   bufVars, loaderVars, visVars>>

DispatchPost ==
    /\ rpc = "post"
    /\ ri <= Len(frames[back].post)
    /\ LET cmd == frames[back].post[ri]
           out == DeviceDelete(table, KindOf(cmd.op), cmd.handle)
       IN  /\ table' = out.table
           /\ xlog' = Append(xlog, LogEntry("post", cmd, 0, out.ok, NoUniforms))
           /\ rpc' = Unwrap(out.ok, "post")
           /\ ri' = IF out.ok THEN ri + 1 ELSE ri
    /\ UNCHANGED <<frames, front, back, holder, nswap, appended, bufVars, loaderVars, visVars>>

\* The post loop is over: dispatch returns.
DispatchReturn ==
    /\ rpc = "post"
    /\ ri > Len(frames[back].post)
    /\ rpc' = PhaseAfter("post")
    /\ ri' = 1
    /\ UNCHANGED <<frames, front, back, holder, nswap, table, xlog, appended,
                   bufVars, loaderVars, visVars>>

\* Frame::clear.
FrameClearKeepsPre(f) ==
    [pre |-> f.pre, drawcalls |-> <<>>, post |-> <<>>, buf |-> BufClear(f.buf)]

FrameClear(f) ==
    [pre |-> <<>>, drawcalls |-> <<>>, post |-> <<>>, buf |-> BufClear(f.buf)]

\* The render loop clears the frame it has dispatched.
Clear ==
    /\ rpc = "done"
    /\ frames' = [frames EXCEPT ![back] = FrameClear(@)]
    /\ rpc' = "idle"
    /\ UNCHANGED <<front, back, holder, nswap, ri, table, xlog, appended,
                   bufVars, loaderVars, visVars>>

-----------------------------------------------------------------------------
(* TextureLoader::on_finished, one statement per step, and the application *)
(* code that draws with the texture once it has seen the asset ready.      *)

\* AssetState::ready(params) and AssetState::Err(message).
ReadyState(params) == [state |-> "ready", params |-> params, message |-> ""]

ErrState(params, cause) ==
    [state |-> "err", params |-> params, message |-> "Failed to load texture: " \o cause]

\* self.params.dimensions = texture.dimensions; self.params.format = texture.format.
ParsedParamsKeepsFormat(params, texture) ==
    [params EXCEPT !.dimensions = texture.dimensions]

ParsedParams(params, texture) ==
    [params EXCEPT !.dimensions = texture.dimensions, !.format = texture.format]

\* The read or the parse failed: the state becomes Err, nothing is recorded.
LoaderFail ==
    /\ lpc = "start"
    /\ \E cause \in {"read", "parse"} : asset' = ErrState(asset.params, cause)
    /\ lpc' = "end"
    /\ UNCHANGED <<lfr, lptr, lparams, ltex, ltag, readyDraws, frameVars, bufVars, visVars>>

\* The frame self.frames.front() hands to the loader.
LoaderTakesBack == back

LoaderFrame == FrontFrame

\* Read and parse succeeded: the params take the parsed dimensions and
\* format, then let mut frame = self.frames.front().
LoaderFront ==
    /\ lpc = "start"
    /\ holder = "none"
    /\ \E texture \in ParsedTextures :
           /\ ltex' = texture
           /\ lparams' = ParsedParams(lparams, texture)
    /\ holder' = "loader"
    /\ lfr' = LoaderFrame
    /\ lpc' = "front"
    /\ UNCHANGED <<frames, front, back, nswap, rpc, ri, table, xlog, appended,
                   lptr, asset, ltag, readyDraws, bufVars, visVars>>

\* The frame whose buffer takes the payload: frame.buf of the guard.
PayloadInOtherFrame == 1 - lfr

PayloadFrame == lfr

\* let ptr = frame.buf.extend_from_slice(&texture.data).
LoaderExtend ==
    /\ lpc = "front"
    /\ LET r == ExtendFromBytes(frames[PayloadFrame].buf, ltex.data)
       IN  /\ frames' = [frames EXCEPT ![PayloadFrame].buf = r.buf]
           /\ lptr' = r.ptr
    /\ lpc' = "extended"
    /\ UNCHANGED <<front, back, holder, nswap, rpc, ri, table, xlog, appended,
                   lfr, asset, lparams, ltex, ltag, readyDraws, bufVars, visVars>>

\* frame.pre.push(CreateTexture(handle, params, Some(ptr))); the guard is
\* dropped at the end of the block.
LoaderPush ==
    /\ lpc = "extended"
    /\ LET n == Len(frames[lfr].pre) + 1
       IN  /\ frames' = [frames EXCEPT ![lfr].pre =
                  Append(@, [op |-> "CreateTexture", handle |-> TextureHandle,
                             ptr |-> lptr, tag |-> Tag(n)])]
           /\ appended' = appended \cup {[list |-> "pre", tag |-> Tag(n)]}
           /\ ltag' = Tag(n)
    /\ holder' = "none"
    /\ lpc' = "pushed"
    /\ UNCHANGED <<front, back, nswap, rpc, ri, table, xlog, lfr, lptr, asset,
                   lparams, ltex, readyDraws, bufVars, visVars>>

\* The statement after which the state cell is written: the block that
\* pushes the command comes first, the write is the last statement.
WrittenBeforePush == "extended"

WrittenAfter == "pushed"

\* *self.state.write().unwrap() = AssetState::ready(params).
LoaderWrite ==
    /\ lpc = WrittenAfter
    /\ asset' = ReadyState(lparams)
    /\ lpc' = "end"
    /\ UNCHANGED <<lfr, lptr, lparams, ltex, ltag, readyDraws, frameVars, bufVars, visVars>>

\* The application reads the state cell, finds the texture ready and records
\* a draw that samples it.
AppendDrawWhenReady(choices, room) ==
    /\ asset.state = "ready"
    /\ CanRecord(room)
    /\ \E d \in choices :
        /\ frames' = [frames EXCEPT ![FrontFrame] = PushDraw(@, d)]
        /\ appended' = appended \cup
               {[list |-> "draw", tag |-> Tag(Len(frames[FrontFrame].drawcalls) + 1)]}
        /\ readyDraws' = readyDraws \cup {Tag(Len(frames[FrontFrame].drawcalls) + 1)}
    /\ UNCHANGED <<front, back, holder, nswap, rpc, ri, table, xlog, bufVars,
                   lpc, lfr, lptr, asset, lparams, ltex, ltag, visVars>>

-----------------------------------------------------------------------------
(* The OpenGL context behind the visitor: the state the gl:: calls of      *)
(* visitor.rs read and write, with the initial values and the error rules  *)
(* of the OpenGL specification.                                            *)

None == [some |-> FALSE]
Some(v) == [some |-> TRUE, val |-> v]

\* HashMap::new and HashMap::insert.
EmptyMap == [k \in {} |-> 0]

MapInsert(m, k, v) == [x \in DOMAIN m \cup {k} |-> IF x = k THEN v ELSE m[x]]

MapRemove(m, k) == [x \in DOMAIN m \ {k} |-> m[x]]

\* gl::ARRAY_BUFFER and gl::ELEMENT_ARRAY_BUFFER, the targets of Resource.
Targets == {"ARRAY_BUFFER", "ELEMENT_ARRAY_BUFFER"}

\* Resource::Vertex / Resource::Index converted to their target.
TargetOf(buf) == IF buf = "Vertex" THEN "ARRAY_BUFFER" ELSE "ELEMENT_ARRAY_BUFFER"

\* The names the context hands out for buffers and for programs.
BufIds == 1..MaxBufIds

ProgIds == 1..MaxProgIds

\* The framebuffer size the context starts with: its viewport is the window.
WindowSize == <<640, 480>>

\* The state of a context right after its creation.
GlDefault ==
    [cull_face |-> FALSE, cull_face_mode |-> "Back",
     front_face |-> "CounterClockwise",
     depth_test |-> FALSE, depth_func |-> "Less", depth_writemask |-> TRUE,
     polygon_offset_fill |-> FALSE, polygon_offset |-> <<0, 0>>,
     blend |-> FALSE, blend_func |-> <<"One", "Zero">>, blend_equation |-> "Add",
     color_writemask |-> <<TRUE, TRUE, TRUE, TRUE>>,
     viewport |-> <<<<0, 0>>, WindowSize>>,
     buffers |-> {}, bound |-> [tp \in Targets |-> 0],
     programs |-> EmptyMap, current_program |-> 0, doomed |-> FALSE,
     nprograms |-> 0, vaos |-> 0, vertex_array |-> 0,
     error |-> "NO_ERROR"]

\* A command that raises an error is ignored and records the error code; the
\* code stays until glGetError returns it.
GlRaise(g, code) == IF g.error = "NO_ERROR" THEN [g EXCEPT !.error = code] ELSE g

GlEnable(g, cap) == [g EXCEPT ![cap] = TRUE]

GlDisable(g, cap) == [g EXCEPT ![cap] = FALSE]

GlCullFace(g, mode) == [g EXCEPT !.cull_face_mode = mode]

GlFrontFace(g, mode) == [g EXCEPT !.front_face = mode]

GlDepthFunc(g, func) == [g EXCEPT !.depth_func = func]

GlDepthMask(g, flag) == [g EXCEPT !.depth_writemask = flag]

GlPolygonOffset(g, v) == [g EXCEPT !.polygon_offset = v]

GlBlendFunc(g, src, dst) == [g EXCEPT !.blend_func = <<src, dst>>]

GlBlendEquation(g, eq) == [g EXCEPT !.blend_equation = eq]

GlColorMask(g, mask) == [g EXCEPT !.color_writemask = mask]

GlViewport(g, position, size) == [g EXCEPT !.viewport = <<position, size>>]

\* glGenBuffers: an unused name, or 0 when the context has none left.
GlGenBuffers(g) == IF BufIds \ g.buffers = {} THEN {0} ELSE BufIds \ g.buffers

\* glBindBuffer: a name the context did not generate is an INVALID_OPERATION
\* in a core profile and creates the object in a compatibility profile.
GlBindBuffer(g, tp, id) ==
    IF id = 0 \/ id \in g.buffers
    THEN {[g EXCEPT !.bound[tp] = id]}
    ELSE {GlRaise(g, "INVALID_OPERATION"),
          [g EXCEPT !.buffers = @ \cup {id}, !.bound[tp] = id]}

\* glBufferData / glBufferSubData: INVALID_OPERATION when the reserved name 0
\* is bound to the target.
GlBufferData(g, tp) == IF g.bound[tp] = 0 THEN GlRaise(g, "INVALID_OPERATION") ELSE g

\* glDeleteBuffers: the name becomes unused and every binding of it in the
\* context reverts to 0; an unused name is ignored.
GlDeleteBuffers(g, id) ==
    [g EXCEPT !.buffers = @ \ {id},
              !.bound = [tp \in Targets |-> IF @[tp] = id THEN 0 ELSE @[tp]]]

\* The program a context deletes when it stops being current while flagged.
GlDropDoomed(g) ==
    IF g.doomed
    THEN [g EXCEPT !.programs = MapRemove(@, g.current_program), !.doomed = FALSE]
    ELSE g

\* glCreateProgram followed by a successful or failed link: the object exists
\* under an unused name; gen tells the objects that share a name apart.
GlCreateProgram(g, id) ==
    [g EXCEPT !.programs = MapInsert(@, id, g.nprograms + 1),
              !.nprograms = @ + 1]

\* glUseProgram: INVALID_VALUE for a name that is no program object.
GlUseProgram(g, id) ==
    IF id \in DOMAIN g.programs
    THEN IF id = g.current_program THEN g
         ELSE [GlDropDoomed(g) EXCEPT !.current_program = id]
    ELSE GlRaise(g, "INVALID_VALUE")

\* glDeleteProgram: the current program is only flagged and lives on until it
\* is no longer current; INVALID_VALUE for a name that is no program object.
GlDeleteProgram(g, id) ==
    IF id \notin DOMAIN g.programs THEN GlRaise(g, "INVALID_VALUE")
    ELSE IF id = g.current_program THEN [g EXCEPT !.doomed = TRUE]
    ELSE [g EXCEPT !.programs = MapRemove(@, id)]

\* The shader variables of the programs and where each program object keeps
\* them: the location depends on the object, not on its name.
Names == {"color"}

NameIndex(name) == IF name = "color" THEN 0 ELSE 1

GlUniformLocationOf(gen, name) == 10 * gen + NameIndex(name)

GlAttribLocationOf(gen, name) == 10 * gen + 5 + NameIndex(name)

\* glGetUniformLocation / glGetAttribLocation: INVALID_VALUE and -1 for a
\* name that is no program object.
GlGetLocation(g, id, name, LocationOf(_, _)) ==
    IF id \in DOMAIN g.programs
    THEN [gl |-> g, location |-> LocationOf(g.programs[id], name)]
    ELSE [gl |-> GlRaise(g, "INVALID_VALUE"), location |-> -1]

\* glGenVertexArrays and glBindVertexArray.
GlGenVertexArrays(g) == [g EXCEPT !.vaos = @ + 1]

GlBindVertexArray(g, vao) == [g EXCEPT !.vertex_array = vao]

\* glEnableVertexAttribArray and glVertexAttribPointer: INVALID_VALUE for an
\* index that is not below GL_MAX_VERTEX_ATTRIBS, as -1 cast to GLuint is.
GlVertexAttrib(g, location) == IF location < 0 THEN GlRaise(g, "INVALID_VALUE") ELSE g

-----------------------------------------------------------------------------
(* OpenGLVisitor: the cache and the state setters.                         *)

\* OpenGLVisitor::new.
NewVisitor ==
    [cull_face |-> "Back", front_face_order |-> "CounterClockwise",
     depth_test |-> "Always", depth_write |-> FALSE, depth_write_offset |-> None,
     color_blend |-> None, color_write |-> <<FALSE, FALSE, FALSE, FALSE>>,
     viewport |-> <<<<0, 0>>, <<128, 128>>>>,
     active_bufs |-> EmptyMap, active_program |-> None, active_vao |-> None,
     program_attribute_locations |-> EmptyMap,
     program_uniform_locations |-> EmptyMap,
     vertex_array_objects |-> EmptyMap]

\* The error values the operations return.
NoLog == [len |-> 0, names |-> "none"]

NoErr == [kind |-> "none", name |-> "", log |-> NoLog, src |-> ""]

ErrOf(kind) == [kind |-> kind, name |-> "", log |-> NoLog, src |-> ""]

\* check(): the kind each code of glGetError is mapped to; reading the code
\* resets it.
KindOfCode(code) ==
    CASE code = "INVALID_ENUM" -> "InvalidEnum"
      [] code = "INVALID_VALUE" -> "InvalidValue"
      [] code = "INVALID_OPERATION" -> "InvalidOperation"
      [] code = "INVALID_FRAMEBUFFER_OPERATION" -> "InvalidFramebufferOperation"
      [] code = "OUT_OF_MEMORY" -> "OutOfBounds"
      [] OTHER -> "Unknown"

Check(g) ==
    [ok |-> g.error = "NO_ERROR",
     err |-> IF g.error = "NO_ERROR" THEN NoErr ELSE ErrOf(KindOfCode(g.error)),
     gl |-> [g EXCEPT !.error = "NO_ERROR"]]

\* What an operation leaves behind: the cache, the context, the Result and
\* the number of gl commands it issued.
Returned(v, g, ok, err, val, calls) ==
    [vis |-> v, gl |-> g, ok |-> ok, err |-> err, val |-> val, calls |-> calls]

\* An operation that ends in check().
Checked(v, g, calls) ==
    LET c == Check(g) IN Returned(v, c.gl, c.ok, c.err, 0, calls)

\* An operation that returns Ok(()) without reaching the context.
Elided(v, g) == Returned(v, g, TRUE, NoErr, 0, 0)

\* bail!(..) with an error of the given kind.
Bailed(v, g, kind, calls) == Returned(v, g, FALSE, ErrOf(kind), 0, calls)

\* set_viewport.
SetViewport(v, g, position, size) ==
    IF v.viewport[1] # position \/ v.viewport[2] # size
    THEN Checked([v EXCEPT !.viewport = <<position, size>>],
                 GlViewport(g, position, size), 1)
    ELSE Elided(v, g)

\* The gl commands set_cull_face issues for a face.
CullFaceCalls(g, face) ==
    IF face # "Nothing" THEN GlCullFace(GlEnable(g, "cull_face"), face)
    ELSE GlDisable(g, "cull_face")

\* set_cull_face.
SetCullFace(v, g, face) ==
    IF v.cull_face # face
    THEN Checked([v EXCEPT !.cull_face = face], CullFaceCalls(g, face),
                 IF face # "Nothing" THEN 2 ELSE 1)
    ELSE Elided(v, g)

\* set_front_face_order.
SetFrontFaceOrder(v, g, order) ==
    IF v.front_face_order # order
    THEN Checked([v EXCEPT !.front_face_order = order], GlFrontFace(g, order), 1)
    ELSE Elided(v, g)

\* The gl commands set_depth_test issues for a comparison.
DepthTestCalls(g, comparison) ==
    IF comparison # "Always" THEN GlDepthFunc(GlEnable(g, "depth_test"), comparison)
    ELSE GlDisable(g, "depth_test")

\* set_depth_test.
SetDepthTest(v, g, comparison) ==
    IF v.depth_test # comparison
    THEN Checked([v EXCEPT !.depth_test = comparison], DepthTestCalls(g, comparison),
                 IF comparison # "Always" THEN 2 ELSE 1)
    ELSE Elided(v, g)

\* The gl commands set_depth_write issues for an offset that differs from the
\* cached one: none at all for None.
DepthOffsetCalls(g, offset) ==
    IF offset.some
    THEN IF offset.val[1] # 0 \/ offset.val[2] # 0
         THEN GlPolygonOffset(GlEnable(g, "polygon_offset_fill"), offset.val)
         ELSE GlDisable(g, "polygon_offset_fill")
    ELSE g

\* set_depth_write: both parts are compared on their own, check() always runs.
SetDepthWrite(v, g, enable, offset) ==
    LET mask == v.depth_write # enable
        g1 == IF mask THEN GlDepthMask(g, enable) ELSE g
        v1 == IF mask THEN [v EXCEPT !.depth_write = enable] ELSE v
        off == v1.depth_write_offset # offset
        g2 == IF off THEN DepthOffsetCalls(g1, offset) ELSE g1
        v2 == IF off THEN [v1 EXCEPT !.depth_write_offset = offset] ELSE v1
        calls == (IF mask THEN 1 ELSE 0)
                     + (IF off /\ offset.some
                        THEN (IF offset.val[1] # 0 \/ offset.val[2] # 0 THEN 2 ELSE 1)
                        ELSE 0)
    IN  Checked(v2, g2, calls)

ColorBlendNeverDisabled(g, cached, blend) ==
    IF blend.some
    THEN LET g1 == IF cached = None THEN GlEnable(g, "blend") ELSE g
         IN  GlBlendEquation(GlBlendFunc(g1, blend.val[2], blend.val[3]), blend.val[1])
    ELSE g

\* The gl commands set_color_blend issues for a blend that differs from the
\* cached one.
ColorBlendCalls(g, cached, blend) ==
    IF blend.some
    THEN LET g1 == IF cached = None THEN GlEnable(g, "blend") ELSE g
         IN  GlBlendEquation(GlBlendFunc(g1, blend.val[2], blend.val[3]), blend.val[1])
    ELSE IF cached # None THEN GlDisable(g, "blend") ELSE g

\* set_color_blend.
SetColorBlend(v, g, blend) ==
    IF v.color_blend # blend
    THEN Checked([v EXCEPT !.color_blend = blend],
                 ColorBlendCalls(g, v.color_blend, blend),
                 IF blend.some THEN (IF v.color_blend = None THEN 3 ELSE 2) ELSE 1)
    ELSE Elided(v, g)

\* set_color_write: the cache is written before the command is issued.
SetColorWrite(v, g, mask) ==
    IF v.color_write # mask
    THEN Checked([v EXCEPT !.color_write = mask], GlColorMask(g, mask), 1)
    ELSE Elided(v, g)

-----------------------------------------------------------------------------
(* OpenGLVisitor: bindings, locations, programs and buffers.  An operation *)
(* whose outcome depends on the context (the name it hands out, the        *)
(* profile, the info log) is the set of its outcomes.                      *)

BindBufferAnyTarget(v, g, tp, id) ==
    IF \E t \in DOMAIN v.active_bufs : v.active_bufs[t] = id
    THEN {Elided(v, g)}
    ELSE {Checked([v EXCEPT !.active_bufs = MapInsert(@, tp, id)], g1, 1) :
              g1 \in GlBindBuffer(g, tp, id)}

\* bind_buffer.
BindBuffer(v, g, tp, id) ==
    IF tp \in DOMAIN v.active_bufs /\ v.active_bufs[tp] = id
    THEN {Elided(v, g)}
    ELSE {Checked([v EXCEPT !.active_bufs = MapInsert(@, tp, id)], g1, 1) :
              g1 \in GlBindBuffer(g, tp, id)}

\* bind_program.
BindProgram(v, g, id) ==
    IF v.active_program = Some(id)
    THEN Elided(v, g)
    ELSE Checked([v EXCEPT !.active_program = Some(id)], GlUseProgram(g, id), 1)

\* The vertex attributes a program expects, with the location the caller
\* resolved for each (-1 for a variable the linker dropped), and the vertex
\* layouts of the buffers.
PositionAttr == [name |-> "Position", format |-> "Float", size |-> 3, normalized |-> FALSE]

ColorAttr == [name |-> "Color0", format |-> "UByte", size |-> 4, normalized |-> TRUE]

AttributeLists ==
    {<<[location |-> 0, desc |-> PositionAttr], [location |-> 1, desc |-> ColorAttr]>>,
     <<[location |-> -1, desc |-> PositionAttr]>>}

\* VertexLayout::element(name) of a layout whose Position element is the one
\* the programs expect and whose Color0 element is the given one, if any.
LayoutWith(color) ==
    [n \in {"Position"} \cup DOMAIN color |->
        IF n = "Position" THEN [format |-> "Float", size |-> 3, normalized |-> FALSE]
        ELSE color[n]]

Layouts ==
    {LayoutWith([n \in {"Color0"} |-> [format |-> "UByte", size |-> 4, normalized |-> TRUE]]),
     LayoutWith([n \in {"Color0"} |-> [format |-> "Float", size |-> 4, normalized |-> TRUE]]),
     LayoutWith([n \in {"Color0"} |-> [format |-> "UByte", size |-> 3, normalized |-> TRUE]]),
     LayoutWith([n \in {"Color0"} |-> [format |-> "UByte", size |-> 4, normalized |-> FALSE]]),
     LayoutWith(EmptyMap)}

\* for &(location, desc) in attributes: the loop stops at the first attribute
\* the layout lacks or declares with another format or size.
RECURSIVE AttributeLoop(_, _, _, _)
AttributeLoop(g, attributes, layout, calls) ==
    IF attributes = <<>> THEN [gl |-> g, ok |-> TRUE, err |-> NoErr, calls |-> calls]
    ELSE LET location == Head(attributes).location
             desc == Head(attributes).desc
         IN  IF desc.name \in DOMAIN layout
             THEN IF layout[desc.name].format # desc.format
                         \/ layout[desc.name].size # desc.size
                  THEN [gl |-> g, ok |-> FALSE,
                        err |-> [ErrOf("IncompatibleAttribute") EXCEPT !.name = desc.name],
                        calls |-> calls]
                  ELSE AttributeLoop(GlVertexAttrib(GlVertexAttrib(g, location), location),
                                     Tail(attributes), layout, calls + 2)
             ELSE [gl |-> g, ok |-> FALSE,
                   err |-> [ErrOf("MissingAttribute") EXCEPT !.name = desc.name],
                   calls |-> calls]

\* Whether bind_attribute_layout finds a vertex array object for the active
\* program and the bound vertex buffer.
VaoCached(v) ==
    /\ v.active_program.some
    /\ "ARRAY_BUFFER" \in DOMAIN v.active_bufs
    /\ <<v.active_program.val, v.active_bufs["ARRAY_BUFFER"]>>
           \in DOMAIN v.vertex_array_objects

\* bind_attribute_layout.
BindAttributeLayout(v, g, attributes, layout) ==
    IF ~v.active_program.some THEN Bailed(v, g, "InvalidHandle", 0)
    ELSE IF "ARRAY_BUFFER" \notin DOMAIN v.active_bufs
         THEN Bailed(v, g, "InvalidHandle", 0)
    ELSE LET pair == <<v.active_program.val, v.active_bufs["ARRAY_BUFFER"]>>
         IN  IF pair \in DOMAIN v.vertex_array_objects
             THEN LET vao == v.vertex_array_objects[pair]
                  IN  IF v.active_vao = Some(vao) THEN Elided(v, g)
                      ELSE Checked([v EXCEPT !.active_vao = Some(vao)],
                                   GlBindVertexArray(g, vao), 1)
             ELSE LET g1 == GlGenVertexArrays(g)
                      vao == g1.vaos
                      v1 == [v EXCEPT !.active_vao = Some(vao)]
                      loop == AttributeLoop(GlBindVertexArray(g1, vao),
                                            attributes, layout, 2)
                      c == Check(loop.gl)
                  IN  IF ~loop.ok
                      THEN Returned(v1, loop.gl, FALSE, loop.err, 0, loop.calls)
                      ELSE IF ~c.ok
                           THEN Returned(v1, c.gl, FALSE, c.err, 0, loop.calls)
                      ELSE Returned([v1 EXCEPT !.vertex_array_objects =
                                                   MapInsert(@, pair, vao)],
                                    c.gl, TRUE, NoErr, 0, loop.calls)

\* The body get_uniform_location and get_attribute_location share: the
\* location is looked up in, and memoized into, cache[id].
LookupLocation(v, g, id, name, cache, LocationOf(_, _), Store(_, _)) ==
    IF id \in DOMAIN cache
    THEN IF name \in DOMAIN cache[id]
         THEN Returned(v, g, TRUE, NoErr, cache[id][name], 0)
         ELSE LET q == GlGetLocation(g, id, name, LocationOf)
                  c == Check(q.gl)
              IN  IF ~c.ok THEN Returned(v, c.gl, FALSE, c.err, 0, 1)
                  ELSE Returned(Store(v, MapInsert(cache[id], name, q.location)),
                                c.gl, TRUE, NoErr, q.location, 1)
    ELSE Bailed(v, g, "InvalidHandle", 0)

\* get_uniform_location.
GetUniformLocation(v, g, id, name) ==
    LET Store(w, m) == [w EXCEPT !.program_uniform_locations[id] = m]
    IN  LookupLocation(v, g, id, name, v.program_uniform_locations,
                       GlUniformLocationOf, Store)

\* get_attribute_location: its cache is self.program_uniform_locations too.
GetAttributeLocation(v, g, id, name) ==
    LET Store(w, m) == [w EXCEPT !.program_uniform_locations[id] = m]
    IN  LookupLocation(v, g, id, name, v.program_uniform_locations,
                       GlAttribLocationOf, Store)

\* The shader sources handed to create_program: whether each compiles, and
\* whether the fragment shader links with the vertex shader.
VsSources ==
    {[text |-> "vs", compiles |-> TRUE], [text |-> "vs_broken", compiles |-> FALSE]}

FsSources ==
    {[text |-> "fs", compiles |-> TRUE, links |-> TRUE],
     [text |-> "fs_broken", compiles |-> FALSE, links |-> FALSE],
     [text |-> "fs_other_varyings", compiles |-> TRUE, links |-> FALSE]}

\* The info log of a failed compile or link is the driver's: it may be empty
\* (length 0), and it may or may not say which stage failed.
InfoLogs(stage) ==
    {[len |-> 0, names |-> "none"], [len |-> 24, names |-> "none"],
     [len |-> 40, names |-> stage]}

\* The error compile and link build from an info log: buf.set_len(len - 1)
\* underflows for an empty log, otherwise the log and (compile only) the
\* source are formatted into FailedCompilePipeline.
CompileError(log, text) ==
    IF log.len = 0 THEN ErrOf("panic")
    ELSE [kind |-> "FailedCompilePipeline", name |-> "", log |-> log, src |-> text]

\* compile: the outcomes for one stage.
Compile(stage, src) ==
    IF src.compiles THEN {NoErr}
    ELSE {CompileError(log, src.text) : log \in InfoLogs(stage)}

\* link: the program object is created whether or not the link succeeds.
Link(fs) ==
    IF fs.links THEN {NoErr}
    ELSE {CompileError(log, "") : log \in InfoLogs("link")}

\* The caches of a program that create_program registers and delete_program
\* empties: HashMap::clear on the program's map, or a new empty map.
RegisterProgram(v, id) ==
    [v EXCEPT !.program_uniform_locations = MapInsert(@, id, EmptyMap),
              !.program_attribute_locations = MapInsert(@, id, EmptyMap)]

ClearLocationsKeepsUniforms(v, id) ==
    [v EXCEPT !.program_attribute_locations =
                  IF id \in DOMAIN @ THEN MapInsert(@, id, EmptyMap) ELSE @]

ClearLocations(v, id) ==
    [v EXCEPT !.program_uniform_locations =
                  IF id \in DOMAIN @ THEN MapInsert(@, id, EmptyMap) ELSE @,
              !.program_attribute_locations =
                  IF id \in DOMAIN @ THEN MapInsert(@, id, EmptyMap) ELSE @]

\* create_program.
CreateProgram(v, g, vs, fs) ==
    LET failed(e, calls) == Returned(v, g, FALSE, e, 0, calls)
        vsFailed == {failed(e, 4) : e \in Compile("vertex", vs) \ {NoErr}}
        fsFailed == {failed(e, 8) : e \in Compile("fragment", fs) \ {NoErr}}
        linked(id) ==
            LET g1 == GlCreateProgram(g, id)
                c == Check(g1)
            IN  {Returned(v, g1, FALSE, e, 0, 13) : e \in Link(fs) \ {NoErr}}
                    \cup (IF ~fs.links THEN {}
                          ELSE IF ~c.ok THEN {Returned(v, c.gl, FALSE, c.err, 0, 17)}
                          ELSE {Returned(RegisterProgram(v, id), c.gl, TRUE, NoErr, id, 17)})
    IN  IF ~vs.compiles THEN vsFailed
        ELSE IF ~fs.compiles THEN fsFailed
        ELSE UNION {linked(id) : id \in ProgIds \ DOMAIN g.programs}

\* delete_program.
DeleteProgram(v, g, id) ==
    LET v1 == IF v.active_program = Some(id) THEN [v EXCEPT !.active_program = None]
              ELSE v
    IN  Checked(ClearLocations(v1, id), GlDeleteProgram(g, id), 1)

\* create_buffer.
CreateBuffer(v, g, buf) ==
    UNION {IF id = 0 THEN {Bailed(v, g, "FailedCreateBuffer", 1)}
           ELSE {IF ~b.ok THEN Returned(b.vis, b.gl, FALSE, b.err, 0, 1 + b.calls)
                 ELSE LET c == Check(GlBufferData(b.gl, TargetOf(buf)))
                      IN  Returned(b.vis, c.gl, c.ok, c.err,
                                   IF c.ok THEN id ELSE 0, 2 + b.calls) :
                     b \in BindBuffer(v, [g EXCEPT !.buffers = @ \cup {id}],
                                      TargetOf(buf), id)} :
               id \in GlGenBuffers(g)}

\* update_buffer: &data[0] panics for an empty slice.
UpdateBuffer(v, g, id, buf, data) ==
    {IF ~b.ok THEN Returned(b.vis, b.gl, FALSE, b.err, 0, b.calls)
     ELSE IF data = <<>> THEN Returned(b.vis, b.gl, FALSE, ErrOf("panic"), 0, b.calls)
     ELSE Checked(b.vis, GlBufferData(b.gl, TargetOf(buf)), 1 + b.calls) :
         b \in BindBuffer(v, g, TargetOf(buf), id)}

\* delete_buffer.
DeleteBuffer(v, g, id) == Checked(v, GlDeleteBuffers(g, id), 1)

-----------------------------------------------------------------------------
(* The visitor driven call by call.                                        *)

\* The arguments the callers pass to the state setters.
CullFaces == {"Nothing", "Front", "Back"}

FrontFaceOrders == {"Clockwise", "CounterClockwise"}

Comparisons == {"Always", "Less"}

DepthOffsets == {None, Some(<<0, 0>>), Some(<<1, 1>>)}

Blends ==
    {None, Some(<<"Add", "SourceAlpha", "OneMinusSourceAlpha">>),
     Some(<<"Subtract", "One", "One">>)}

ColorWrites == {<<FALSE, FALSE, FALSE, FALSE>>, <<TRUE, TRUE, TRUE, TRUE>>}

Viewports == {<<<<0, 0>>, <<128, 128>>>>, <<<<0, 0>>, <<64, 64>>>>}

BufferData == {<<>>, <<1>>}

NoOp == [op |-> "new", arg |-> 0, ok |-> TRUE, err |-> NoErr, val |-> 0, calls |-> 0]

InitVisitor ==
    /\ vis = NewVisitor
    /\ gl = GlDefault
    /\ glu = GlDefault
    /\ vop = NoOp
    /\ culls = <<>>
    /\ ncull = 0
    /\ nset = 0
    /\ plife = EmptyMap
    /\ generated = EmptyMap
    /\ requested = EmptyMap

\* A panic ends the render thread: no further call is made.
Alive == vop.err.kind # "panic"

\* The visitor and the context after an operation, and what it returned.
Commit(op, arg, r) ==
    /\ vis' = r.vis
    /\ gl' = r.gl
    /\ vop' = [op |-> op, arg |-> arg, ok |-> r.ok, err |-> r.err, val |-> r.val,
               calls |-> r.calls]
    /\ UNCHANGED <<bufVars, frameVars, loaderVars>>

DoSetCullFace ==
    /\ Alive
    /\ nset < MaxSetterCalls
    /\ nset' = nset + 1
    /\ \E face \in CullFaces :
           LET r == SetCullFace(vis, gl, face)
           IN  /\ Commit("set_cull_face", face, r)
               /\ glu' = CullFaceCalls(glu, face)
               /\ culls' = Append(culls, face)
               /\ ncull' = IF r.calls > 0 THEN ncull + 1 ELSE ncull
    /\ UNCHANGED <<plife, generated, requested>>

DoSetFrontFaceOrder ==
    /\ Alive
    /\ nset < MaxSetterCalls
    /\ nset' = nset + 1
    /\ \E order \in FrontFaceOrders :
           /\ Commit("set_front_face_order", order, SetFrontFaceOrder(vis, gl, order))
           /\ glu' = GlFrontFace(glu, order)
    /\ UNCHANGED <<culls, ncull, plife, generated, requested>>

DoSetDepthTest ==
    /\ Alive
    /\ nset < MaxSetterCalls
    /\ nset' = nset + 1
    /\ \E comparison \in Comparisons :
           /\ Commit("set_depth_test", comparison, SetDepthTest(vis, gl, comparison))
           /\ glu' = DepthTestCalls(glu, comparison)
    /\ UNCHANGED <<culls, ncull, plife, generated, requested>>

DoSetDepthWrite ==
    /\ Alive
    /\ nset < MaxSetterCalls
    /\ nset' = nset + 1
    /\ \E enable \in BOOLEAN, offset \in DepthOffsets :
           /\ Commit("set_depth_write", <<enable, offset>>,
                     SetDepthWrite(vis, gl, enable, offset))
           /\ glu' = DepthOffsetCalls(GlDepthMask(glu, enable), offset)
    /\ UNCHANGED <<culls, ncull, plife, generated, requested>>

DoSetColorBlend ==
    /\ Alive
    /\ nset < MaxSetterCalls
    /\ nset' = nset + 1
    /\ \E blend \in Blends :
           /\ Commit("set_color_blend", blend, SetColorBlend(vis, gl, blend))
           /\ glu' = ColorBlendCalls(glu, IF blend.some THEN None ELSE Some(<<>>), blend)
    /\ UNCHANGED <<culls, ncull, plife, generated, requested>>

DoSetColorWrite ==
    /\ Alive
    /\ nset < MaxSetterCalls
    /\ nset' = nset + 1
    /\ \E mask \in ColorWrites :
           /\ Commit("set_color_write", mask, SetColorWrite(vis, gl, mask))
           /\ glu' = GlColorMask(glu, mask)
    /\ UNCHANGED <<culls, ncull, plife, generated, requested>>

DoSetViewport ==
    /\ Alive
    /\ nset < MaxSetterCalls
    /\ nset' = nset + 1
    /\ \E vp \in Viewports :
           /\ Commit("set_viewport", vp, SetViewport(vis, gl, vp[1], vp[2]))
           /\ glu' = GlViewport(glu, vp[1], vp[2])
    /\ UNCHANGED <<culls, ncull, plife, generated, requested>>

DoBindBuffer(targets, ids) ==
    /\ Alive
    /\ \E tp \in targets, id \in ids :
           \E r \in BindBuffer(vis, gl, tp, id) :
               /\ Commit("bind_buffer", [target |-> tp, id |-> id], r)
               /\ requested' = MapInsert(requested, tp, id)
    /\ UNCHANGED <<glu, culls, ncull, nset, plife, generated>>

DoBindProgram ==
    /\ Alive
    /\ \E id \in ProgIds :
           /\ Commit("bind_program", id, BindProgram(vis, gl, id))
           /\ plife' = IF id \in DOMAIN plife /\ plife[id].alive
                       THEN [plife EXCEPT ![id].bound = TRUE] ELSE plife
    /\ UNCHANGED <<glu, culls, ncull, nset, generated, requested>>

\* The (program, buffer) pair bind_attribute_layout looks its vertex array
\* object up under.
ActivePair(v) == <<v.active_program.val, v.active_bufs["ARRAY_BUFFER"]>>

DoBindAttributeLayout(lists, layouts) ==
    /\ Alive
    /\ VaoCached(vis) \/ gl.vaos < MaxVaos
    /\ \E attributes \in lists, layout \in layouts :
           LET r == BindAttributeLayout(vis, gl, attributes, layout)
               paired == vis.active_program.some /\ "ARRAY_BUFFER" \in DOMAIN vis.active_bufs
           IN  /\ Commit("bind_attribute_layout",
                         IF paired /\ ~VaoCached(vis)
                         THEN [validated |-> TRUE, attributes |-> attributes,
                               layout |-> layout]
                         ELSE [validated |-> FALSE], r)
               /\ generated' =
                      IF r.gl.vaos > gl.vaos
                      THEN MapInsert(generated, ActivePair(vis),
                                     IF ActivePair(vis) \in DOMAIN generated
                                     THEN generated[ActivePair(vis)] + 1 ELSE 1)
                      ELSE generated
    /\ UNCHANGED <<glu, culls, ncull, nset, plife, requested>>

\* Whether the name was already looked up, with success, since the program
\* came to life.
\* Whether the id is one create_program returned and delete_program has not
\* been called for since.
Owned(id) == id \in DOMAIN plife /\ plife[id].alive

Repeated(kind, id, name) == Owned(id) /\ <<kind, name>> \in plife[id].looked

Looked(kind, id, name, r) ==
    IF r.ok /\ Owned(id)
    THEN [plife EXCEPT ![id].looked = @ \cup {<<kind, name>>}]
    ELSE plife

\* A lifetime of an id begins when create_program returns it and ends with
\* delete_program.
Born(id, gen) ==
    MapInsert(plife, id,
              [gen |-> gen, looked |-> {}, alive |-> TRUE, bound |-> FALSE,
               lives |-> IF id \in DOMAIN plife THEN plife[id].lives + 1 ELSE 1])

Died(id) == IF id \in DOMAIN plife THEN [plife EXCEPT ![id].alive = FALSE] ELSE plife

DoGetUniformLocation ==
    /\ Alive
    /\ \E id \in ProgIds, name \in Names :
           LET r == GetUniformLocation(vis, gl, id, name)
           IN  /\ Commit("get_uniform_location",
                         [id |-> id, name |-> name,
                          repeated |-> Repeated("uniform", id, name)], r)
               /\ plife' = Looked("uniform", id, name, r)
    /\ UNCHANGED <<glu, culls, ncull, nset, generated, requested>>

DoGetAttributeLocation ==
    /\ Alive
    /\ \E id \in ProgIds, name \in Names :
           LET r == GetAttributeLocation(vis, gl, id, name)
           IN  /\ Commit("get_attribute_location",
                         [id |-> id, name |-> name,
                          repeated |-> Repeated("attribute", id, name)], r)
               /\ plife' = Looked("attribute", id, name, r)
    /\ UNCHANGED <<glu, culls, ncull, nset, generated, requested>>

DoCreateProgram(vss, fss) ==
    /\ Alive
    /\ gl.nprograms < MaxPrograms
    /\ ProgIds \ DOMAIN gl.programs # {}
    /\ \E vs \in vss, fs \in fss :
           \E r \in CreateProgram(vis, gl, vs, fs) :
               /\ Commit("create_program", [vs |-> vs, fs |-> fs], r)
               /\ plife' = IF r.ok THEN Born(r.val, r.gl.programs[r.val]) ELSE plife
    /\ UNCHANGED <<glu, culls, ncull, nset, generated, requested>>

DoDeleteProgram ==
    /\ Alive
    /\ \E id \in ProgIds :
           /\ Commit("delete_program", id, DeleteProgram(vis, gl, id))
           /\ plife' = Died(id)
    /\ UNCHANGED <<glu, culls, ncull, nset, generated, requested>>

DoCreateBuffer(bufs) ==
    /\ Alive
    /\ \E buf \in bufs, hint \in {"Static", "Dynamic"} :
           \E r \in CreateBuffer(vis, gl, buf) :
               /\ Commit("create_buffer", [buf |-> buf, hint |-> hint], r)
               /\ requested' =
                      IF r.gl.buffers = gl.buffers THEN requested
                      ELSE MapInsert(requested, TargetOf(buf),
                                     CHOOSE id \in r.gl.buffers : id \notin gl.buffers)
    /\ UNCHANGED <<glu, culls, ncull, nset, plife, generated>>

DoUpdateBuffer(bufs) ==
    /\ Alive
    /\ \E id \in BufIds, buf \in bufs, data \in BufferData :
           \E r \in UpdateBuffer(vis, gl, id, buf, data) :
               /\ Commit("update_buffer", [id |-> id, buf |-> buf, data |-> data], r)
               /\ requested' = MapInsert(requested, TargetOf(buf), id)
    /\ UNCHANGED <<glu, culls, ncull, nset, plife, generated>>

DoDeleteBuffer ==
    /\ Alive
    /\ \E id \in BufIds : Commit("delete_buffer", id, DeleteBuffer(vis, gl, id))
    /\ UNCHANGED <<glu, culls, ncull, nset, plife, generated, requested>>

\* The codes glGetError returns: the six of the match in check(), and two
\* that fall to its last arm.
ErrorCodes ==
    {"NO_ERROR", "INVALID_ENUM", "INVALID_VALUE", "INVALID_OPERATION",
     "INVALID_FRAMEBUFFER_OPERATION", "OUT_OF_MEMORY", "STACK_OVERFLOW",
     "CONTEXT_LOST"}

\* check() called by the device after a gl command of its own that raised
\* the code (NO_ERROR: that raised none).
DoCheck ==
    /\ Alive
    /\ \E code \in ErrorCodes :
           LET g == IF code = "NO_ERROR" THEN gl ELSE GlRaise(gl, code)
               c == Check(g)
           IN  Commit("check", g.error, Returned(vis, c.gl, c.ok, c.err, 0, 1))
    /\ UNCHANGED <<glu, culls, ncull, nset, plife, generated, requested>>

-----------------------------------------------------------------------------
(* Specifications.                                                         *)

Init == InitBuf /\ InitFrame({{}}) /\ InitVisitor

SpecBuf == Init /\ [][NextBuf]_vars

\* One frame is recorded, swapped to the back and dispatched.
InitDispatch ==
    /\ InitBuf
    /\ InitVisitor
    /\ InitFrame({{}, AllResources \ {<<"view", 1>>, <<"view", 2>>}, AllResources})

RoomInFrame == nswap = 0 /\ FrameLen(frames[front]) < MaxCmds

NextDispatch ==
    \/ AppendPre(PreChoices, RoomInFrame)
    \/ AppendDraw(DrawChoices, RoomInFrame)
    \/ AppendPost(PostChoices, RoomInFrame)
    \/ Swap(1)
    \/ DispatchPre
    \/ DispatchSort
    \/ DispatchDraw
    \/ DispatchDrawEnd
    \/ DispatchPost
    \/ DispatchReturn
    \/ Clear

SpecDispatch == InitDispatch /\ [][NextDispatch]_vars

\* Producers, the texture loader and the render loop over the double frame.
InitFrames ==
    /\ InitBuf
    /\ InitVisitor
    /\ InitFrame({AllResources \ {<<"view", 1>>, <<"view", 2>>}})

RoomInRun == Cardinality(appended) < MaxAppends

NextFrames ==
    \/ AppendPre(FewPre, RoomInRun)
    \/ AppendDraw(FewDraws, RoomInRun)
    \/ AppendPost(FewPost, RoomInRun)
    \/ Swap(MaxSwaps)
    \/ DispatchPre
    \/ DispatchSort
    \/ DispatchDraw
    \/ DispatchDrawEnd
    \/ DispatchPost
    \/ DispatchReturn
    \/ Clear
    \/ LoaderFail
    \/ LoaderFront
    \/ LoaderExtend
    \/ LoaderPush
    \/ LoaderWrite
    \/ AppendDrawWhenReady(FewDraws, RoomInRun)

SpecFrames == InitFrames /\ [][NextFrames]_vars

\* The state setters called on a new visitor over a new context.
NextSetters ==
    \/ DoSetCullFace
    \/ DoSetFrontFaceOrder
    \/ DoSetDepthTest
    \/ DoSetDepthWrite
    \/ DoSetColorBlend
    \/ DoSetColorWrite
    \/ DoSetViewport

SpecSetters == Init /\ [][NextSetters]_vars

\* Programs and the locations of their variables on a new visitor.
NextPrograms ==
    \/ DoCreateProgram(VsSources, FsSources)
    \/ DoDeleteProgram
    \/ DoBindProgram
    \/ DoGetUniformLocation
    \/ DoGetAttributeLocation

SpecPrograms == Init /\ [][NextPrograms]_vars

\* Vertex and index buffers on a new visitor; 0 unbinds a target.
Resources == {"Vertex", "Index"}

BindableIds == 0..MaxBufIds

NextBuffers ==
    \/ DoCreateBuffer(Resources)
    \/ DoUpdateBuffer(Resources)
    \/ DoDeleteBuffer
    \/ DoBindBuffer(Targets, BindableIds)
    \/ DoBindProgram
    \/ DoCheck

SpecBuffers == Init /\ [][NextBuffers]_vars

\* Vertex layouts bound to programs that compile and link.
GoodVs == {vs \in VsSources : vs.compiles}

GoodFs == {fs \in FsSources : fs.compiles /\ fs.links}

NextLayouts ==
    \/ DoCreateProgram(GoodVs, GoodFs)
    \/ DoDeleteProgram
    \/ DoBindProgram
    \/ DoCreateBuffer({"Vertex"})
    \/ DoDeleteBuffer
    \/ DoBindBuffer({"ARRAY_BUFFER"}, BufIds)
    \/ DoBindAttributeLayout(AttributeLists, Layouts)

SpecLayouts == Init /\ [][NextLayouts]_vars

-----------------------------------------------------------------------------
(* Claims about the TaskBuffer.                                            *)

\* C1: resolving a pointer returned by extend, extend_from_slice or
\* extend_from_str with as_ref, as_slice or as_str yields the value that was
\* appended, also after later appends to the same buffer made before clear().
C1_RoundTrip ==
    res.i # 0 => res.out = Ok(live[res.i].val)

\* C2: after clear() the length is zero, the first append made after it
\* returns position 0, and every pointer handed out after the clear resolves
\* to the value appended with it, whatever the storage held before.
C2_ClearReuse ==
    nclear > 0 =>
        /\ lastOp = "clear" => tb.len = 0
        /\ live # <<>> => live[1].ptr.position = 0
        /\ res.i # 0 => res.out = Ok(live[res.i].val)

-----------------------------------------------------------------------------
(* Claims about Frame::dispatch.                                           *)

\* The device operations of the current dispatch that come from one list.
CurLog(list) == SelectSeq(xlog, LAMBDA e : e.epoch = nswap /\ e.list = list)

Dispatching == rpc \in {"pre", "draw", "post", "done", "panicked"}

PhaseRank(list) == CASE list = "pre" -> 1 [] list = "draw" -> 2 [] list = "post" -> 3

\* C3: dispatch issues the device operations of the pre-commands in their
\* append order: the i-th operation issued is that of the i-th command pushed.
C3_PreInAppendOrder ==
    LET log == CurLog("pre")
    IN  \A i \in 1..Len(log) :
            /\ log[i].tag.n = i
            /\ Dispatching => log[i].tag = frames[back].pre[i].tag

\* Three pre-commands of one list have been applied, all successfully.
C3_Witness ==
    LET log == CurLog("pre")
    IN  /\ Len(log) = 3
        /\ \A i \in 1..3 : log[i].ok
        /\ Cardinality(table) = 3

\* C4: the draws are executed in a stable order by view key: the keys never
\* decrease, draws of equal key run in append order, the sorted list is a
\* permutation of the appended one, and once the draw loop is over every
\* appended draw has been executed.
C4_StableDrawOrder ==
    LET log == CurLog("draw")
        dcs == frames[back].drawcalls
    IN  /\ \A i, j \in 1..Len(log) :
               i < j => \/ log[i].key < log[j].key
                        \/ log[i].key = log[j].key /\ log[i].tag.n < log[j].tag.n
        /\ Dispatching => {dcs[i].tag.n : i \in 1..Len(dcs)} = 1..Len(dcs)
        /\ rpc \in {"post", "done"} =>
               /\ Len(log) = Len(dcs)
               /\ \A i \in 1..Len(dcs) : log[i].tag = dcs[i].tag /\ log[i].key = dcs[i].view

\* Draws appended with the keys 2, 1, 2, 1 have run as the 2nd, 4th, 1st, 3rd.
C4_Witness ==
    LET log == CurLog("draw")
    IN  /\ rpc = "post"
        /\ Len(log) = 4
        /\ <<log[1].tag.n, log[2].tag.n, log[3].tag.n, log[4].tag.n>> = <<2, 4, 1, 3>>
        /\ <<log[1].key, log[2].key, log[3].key, log[4].key>> = <<1, 1, 2, 2>>

\* The resources a list both creates (pre) and deletes (post).
CreatedAndDeleted(f) ==
    {<<KindOf(f.pre[i].op), f.pre[i].handle>> : i \in {k \in 1..Len(f.pre) : f.pre[k].op \in CreateOps}}
        \cap {<<KindOf(f.post[i].op), f.post[i].handle>> : i \in 1..Len(f.post)}

\* C5: within one dispatch every pre-command runs before any draw and every
\* draw before any post-command, so while the draws run every pre-command has
\* been applied, no post-command has, and a resource the list creates and
\* deletes is in the resource table.
C5_PreDrawPost ==
    LET log == SelectSeq(xlog, LAMBDA e : e.epoch = nswap)
    IN  /\ \A i, j \in 1..Len(log) :
               i < j => PhaseRank(log[i].list) <= PhaseRank(log[j].list)
        /\ rpc = "draw" =>
               /\ Len(CurLog("pre")) = Len(frames[back].pre)
               /\ CurLog("post") = <<>>
               /\ CreatedAndDeleted(frames[back]) \subseteq table
        /\ rpc \in {"post", "done"} =>
               /\ Len(CurLog("pre")) = Len(frames[back].pre)
               /\ Len(CurLog("draw")) = Len(frames[back].drawcalls)
        /\ (Dispatching /\ CurLog("draw") # <<>>) =>
               Len(CurLog("pre")) = Len(frames[back].pre)

\* A view created by a pre-command was drawn to and then deleted by a
\* post-command of the same list.
C5_Witness ==
    /\ rpc = "done"
    /\ \E i \in 1..Len(frames[back].pre) :
           frames[back].pre[i].op = "CreateView" /\ frames[back].pre[i].handle = 1
    /\ \E i \in 1..Len(frames[back].post) : frames[back].post[i].op = "DeleteView"
    /\ \E i \in 1..Len(xlog) : xlog[i].list = "draw" /\ xlog[i].key = 1 /\ xlog[i].ok
    /\ <<"view", 1>> \notin table
    /\ <<"pipeline", 1>> \in table

DispatchEnded == rpc \in {"done", "panicked"}

AllExecuted(list, cmds) == Len(CurLog(list)) = Len(cmds)

\* C6: a failing command does not stop the dispatch: when the dispatch has
\* ended every command of the list has been executed.
C6_FailureDoesNotStop ==
    DispatchEnded =>
        /\ AllExecuted("pre", frames[back].pre)
        /\ AllExecuted("draw", frames[back].drawcalls)
        /\ AllExecuted("post", frames[back].post)

\* C7: a draw with an invalid handle is reported without a draw call, and the
\* draws and post-commands after it in the same list are still executed.
C7_InvalidDrawSkipped ==
    LET log == CurLog("draw")
    IN  (DispatchEnded /\ \E i \in 1..Len(log) : ~log[i].ok) =>
            /\ AllExecuted("draw", frames[back].drawcalls)
            /\ AllExecuted("post", frames[back].post)

-----------------------------------------------------------------------------
(* Claims about the double frame.                                          *)

CmdTags(f) ==
    {[list |-> "pre", tag |-> f.pre[i].tag] : i \in 1..Len(f.pre)}
        \cup {[list |-> "draw", tag |-> f.drawcalls[i].tag] : i \in 1..Len(f.drawcalls)}
        \cup {[list |-> "post", tag |-> f.post[i].tag] : i \in 1..Len(f.post)}

C9_OneFrontOneBack ==
    /\ [](front # back /\ {front, back} = {0, 1})
    /\ [][(front' # front \/ back' # back) => nswap' = nswap + 1]_vars

\* The roles after one swap, with recorded commands in the frame now read.
C9_Witness ==
    /\ nswap = 1
    /\ front = 1
    /\ back = 0
    /\ frames[back].pre # <<>>

Count(a) == Cardinality({i \in 1..Len(xlog) : xlog[i].list = a.list /\ xlog[i].tag = a.tag})

\* C10: a pushed command stays in the front frame, unexecuted, until the next
\* swap; it is executed by the dispatch that follows that swap and by no
\* other, at most once; once that dispatch has returned it has been executed
\* exactly once, and once the frame is cleared it is in no frame any more.
C10_ExactlyOnce ==
    \A a \in appended :
        /\ Count(a) <= 1
        /\ \A i \in 1..Len(xlog) :
               (xlog[i].list = a.list /\ xlog[i].tag = a.tag) =>
                   xlog[i].epoch = a.tag.epoch + 1
        /\ a.tag.epoch = nswap => Count(a) = 0 /\ a \in CmdTags(frames[front])
        /\ (a.tag.epoch + 1 < nswap \/ (a.tag.epoch + 1 = nswap /\ rpc \in {"done", "idle"}))
               => Count(a) = 1
        /\ (a.tag.epoch + 1 < nswap \/ (a.tag.epoch + 1 = nswap /\ rpc = "idle"))
               => a \notin CmdTags(frames[0]) \cup CmdTags(frames[1])

\* A frame was dispatched, cleared, recycled as front, filled and dispatched
\* again: the log holds one command of the first and one of the third dispatch.
C10_Witness ==
    /\ nswap = 3
    /\ rpc = "done"
    /\ \E i, j \in 1..Len(xlog) : xlog[i].epoch = 1 /\ xlog[j].epoch = 3
    /\ \A a \in appended : Count(a) = 1

-----------------------------------------------------------------------------
(* Claims about the visitor's state setters.                               *)

\* C11: on a new visitor, set_cull_face(Back) called twice issues the
\* cull-face state change once, and Back, Front, Back issues it three times.
C11_CullFaceCalls ==
    nset = Len(culls) =>
        /\ culls = <<"Back", "Back">> => ncull = 1
        /\ culls = <<"Back", "Front", "Back">> => ncull = 3

SetterFields ==
    {"cull_face", "cull_face_mode", "front_face", "depth_test", "depth_func",
     "depth_writemask", "polygon_offset_fill", "polygon_offset", "blend",
     "blend_func", "blend_equation", "color_writemask", "viewport"}

SetterState(g) == [f \in SetterFields |-> g[f]]

\* C12: after any sequence of state-setter calls on a new visitor over a
\* context in its initial state, the context is in the state it would be in
\* had every requested call been issued.
C12_ElisionTransparent == SetterState(gl) = SetterState(glu)

CachingOps == {"bind_buffer", "bind_program", "bind_attribute_layout"}

\* C13: a binding operation that returns an error leaves every field of the
\* cache as it was: a step of such an operation that changes the cache
\* returns Ok.
C13_FailureKeepsCache ==
    [][(vis' # vis /\ vop'.op \in CachingOps) => vop'.ok]_vars

-----------------------------------------------------------------------------
(* Claims about programs, buffers and their caches.                        *)

\* C14: create_program with a vertex source that compiles and a fragment
\* source that does not returns a compile error that names the fragment
\* stage, returns no id and leaves the location caches as they were.
C14_FragmentErrorNamed ==
    [][(vop'.op = "create_program" /\ vop'.arg.vs.compiles /\ ~vop'.arg.fs.compiles)
           => /\ ~vop'.ok
              /\ vop'.err.kind = "FailedCompilePipeline"
              /\ vop'.err.log.names = "fragment"
              /\ vop'.val = 0
              /\ vis' = vis]_vars

\* C16: after delete_program(p) no vertex array object is cached under a pair
\* with p, and after delete_buffer(b) none under a pair with b.
C16_BindingObjectsInvalidated ==
    /\ (vop.op = "delete_program" /\ vop.ok) =>
           \A pair \in DOMAIN vis.vertex_array_objects : pair[1] # vop.arg
    /\ (vop.op = "delete_buffer" /\ vop.ok) =>
           \A pair \in DOMAIN vis.vertex_array_objects : pair[2] # vop.arg

\* C19: after delete_buffer(b) the cache records b as bound to no target.
C19_BoundBufferInvalidated ==
    (vop.op = "delete_buffer" /\ vop.ok) =>
        \A tp \in DOMAIN vis.active_bufs : vis.active_bufs[tp] # vop.arg

LocationsEmpty(id) ==
    /\ id \in DOMAIN vis.program_uniform_locations
           => DOMAIN vis.program_uniform_locations[id] = {}
    /\ id \in DOMAIN vis.program_attribute_locations
           => DOMAIN vis.program_attribute_locations[id] = {}

Lookups == {"get_uniform_location", "get_attribute_location"}

\* C20: right after delete_program(p), and right after a create_program that
\* returned p, the location caches of p are empty; a lookup for a program in
\* its lifetime returns a location of the program object of that lifetime;
\* and a lookup repeated within the lifetime issues no query.
C20_LocationCacheLifetime ==
    /\ vop.op = "delete_program" => LocationsEmpty(vop.arg)
    /\ (vop.op = "create_program" /\ vop.ok) =>
           /\ LocationsEmpty(vop.val)
           /\ vop.val \in DOMAIN vis.program_uniform_locations
           /\ vop.val \in DOMAIN vis.program_attribute_locations
    /\ (vop.op \in Lookups /\ Owned(vop.arg.id)) =>
           /\ vop.ok => vop.val \div 10 = plife[vop.arg.id].gen
           /\ vop.arg.repeated => vop.ok /\ vop.calls = 0

\* A name looked up again, without a query, for a program created under an
\* id that an earlier, deleted program had, which had looked the name up too.
C20_Witness ==
    /\ vop.op = "get_uniform_location"
    /\ Owned(vop.arg.id)
    /\ plife[vop.arg.id].lives = 2
    /\ plife[vop.arg.id].gen = 2
    /\ vop.arg.repeated
    /\ vop.calls = 0
    /\ vop.val = GlUniformLocationOf(2, vop.arg.name)

-----------------------------------------------------------------------------
(* Claims about the texture loader.                                        *)

TextureCommands(f) == {i \in 1..Len(f.pre) : f.pre[i].op = "CreateTexture"}

\* What each statement of on_finished does to the frames.
LoaderStep ==
    /\ (lpc = "start" /\ lpc' = "end") =>
           /\ frames' = frames
           /\ appended' = appended
           /\ asset'.state = "err"
    /\ (lpc = "start" /\ lpc' = "front") => frames' = frames /\ appended' = appended
    /\ (lpc = "front" /\ lpc' = "extended") =>
           /\ frames'[back] = frames[back]
           /\ frames'[front] = [frames[front] EXCEPT !.buf = frames'[front].buf]
           /\ frames'[front].buf.len = frames[front].buf.len + Len(ltex.data)
           /\ appended' = appended
    /\ (lpc = "extended" /\ lpc' = "pushed") =>
           /\ frames'[back] = frames[back]
           /\ Len(frames'[front].pre) = Len(frames[front].pre) + 1
           /\ LET c == frames'[front].pre[Len(frames'[front].pre)]
              IN  /\ frames'[front] = [frames[front] EXCEPT !.pre = Append(@, c)]
                  /\ c.op = "CreateTexture"
                  /\ c.handle = TextureHandle
                  /\ AsBytes(frames'[front].buf, c.ptr) = Ok(ltex.data)
           /\ Cardinality(appended') = Cardinality(appended) + 1
    /\ (lpc = "pushed" /\ lpc' = "end") =>
           /\ frames' = frames
           /\ appended' = appended
           /\ asset'.state = "ready"

\* C15: when read and parse succeed on_finished appends the payload bytes and
\* exactly one CreateTexture command to the front frame and sets the state to
\* ready with the parsed dimensions and format; when one of them fails it
\* appends nothing and sets the state to Err with a message.
C15_LoaderOutcome ==
    /\ [](asset.state = "ready" =>
              /\ lpc = "end"
              /\ ltag # NoTag
              /\ asset.params.dimensions = ltex.dimensions
              /\ asset.params.format = ltex.format)
    /\ [](asset.state = "err" =>
              /\ lpc = "end"
              /\ ltag = NoTag
              /\ asset.message # ""
              /\ TextureCommands(frames[0]) \cup TextureCommands(frames[1]) = {})
    /\ [][LoaderStep]_vars

\* The loader has ended with the state ready, its command in the front frame
\* with the commands the application recorded.
C15_Witness ==
    /\ asset.state = "ready"
    /\ asset.params.dimensions = <<2, 1>>
    /\ TextureCommands(frames[front]) # {}
    /\ Len(frames[front].pre) >= 2

C18_ReadyImpliesSubmitted ==
    /\ asset.state = "ready" => [list |-> "pre", tag |-> ltag] \in appended
    /\ \A d \in readyDraws : d.epoch >= ltag.epoch
    /\ \A i \in 1..Len(xlog) :
           (xlog[i].list = "draw" /\ xlog[i].tag \in readyDraws) =>
               \E j \in 1..(i - 1) : xlog[j].list = "pre" /\ xlog[j].tag = ltag

\* A draw recorded after the state was seen ready has been dispatched, in the
\* frame that held the CreateTexture command.
C18_Witness ==
    \E i \in 1..Len(xlog) :
        /\ xlog[i].list = "draw"
        /\ xlog[i].tag \in readyDraws
        /\ xlog[i].tag.epoch = ltag.epoch

-----------------------------------------------------------------------------
(* Claims about vertex layouts and bindings.                               *)

\* The attributes of a list that the layout lacks, or declares with another
\* element count or another normalization flag than the program expects.
Mismatched(attributes, layout) ==
    {i \in 1..Len(attributes) :
        LET desc == attributes[i].desc
        IN  \/ desc.name \notin DOMAIN layout
            \/ layout[desc.name].size # desc.size
            \/ layout[desc.name].normalized # desc.normalized}

\* C21: a bind_attribute_layout that validates the layout fails with an error
\* naming a mismatched attribute when the layout lacks an expected attribute
\* or declares it with another element count or normalization flag, and it
\* succeeds only when every attribute matches in name, count and flag.
C21_LayoutValidated ==
    (vop.op = "bind_attribute_layout" /\ vop.arg.validated) =>
        LET bad == Mismatched(vop.arg.attributes, vop.arg.layout)
        IN  /\ vop.ok => bad = {}
            /\ bad # {} =>
                   /\ ~vop.ok
                   /\ \E i \in bad : vop.err.name = vop.arg.attributes[i].desc.name

\* C22: at most one vertex array object is ever generated for a pair of
\* active program and bound vertex buffer.
C22_OneObjectPerPair ==
    \A pair \in DOMAIN generated : generated[pair] <= 1

\* C23: bind_buffer issues the bind exactly when the requested id differs
\* from the id most recently asked to be bound to the same target, each
\* target on its own; bind_program issues the use-program call exactly when
\* the requested id differs from the cached active program.
C23_BindElision ==
    [][/\ vop'.op = "bind_buffer" =>
              (vop'.calls = 1 <=>
                   ~(/\ vop'.arg.target \in DOMAIN requested
                     /\ requested[vop'.arg.target] = vop'.arg.id))
       /\ vop'.op = "bind_buffer" => vop'.calls \in {0, 1}
       /\ vop'.op = "bind_program" =>
              (vop'.calls = 1 <=> vis.active_program # Some(vop'.arg))
       /\ vop'.op = "bind_program" => vop'.calls \in {0, 1}]_vars

\* A bind elided for one target while the other target was last asked for
\* another id, after a bind of that id was issued for the other target.
C23_Witness ==
    /\ vop.op = "bind_buffer"
    /\ vop.calls = 0
    /\ vop.arg.target = "ELEMENT_ARRAY_BUFFER"
    /\ vop.arg.id = 1
    /\ "ARRAY_BUFFER" \in DOMAIN requested
    /\ requested["ARRAY_BUFFER"] = 0
    /\ gl.bound["ELEMENT_ARRAY_BUFFER"] = 1

-----------------------------------------------------------------------------
(* Claims about check().                                                   *)

\* The error kind that carries the name of a code.
KindNamed(code) ==
    CASE code = "INVALID_ENUM" -> "InvalidEnum"
      [] code = "INVALID_VALUE" -> "InvalidValue"
      [] code = "INVALID_OPERATION" -> "InvalidOperation"
      [] code = "INVALID_FRAMEBUFFER_OPERATION" -> "InvalidFramebufferOperation"
      [] code = "OUT_OF_MEMORY" -> "OutOfMemory"
      [] OTHER -> "Unknown"

\* C24: check() returns Ok when the context holds no error, the kind named
\* after the code for invalid enum, invalid value, invalid operation,
\* invalid framebuffer operation and out of memory, and Unknown otherwise.
C24_CheckKinds ==
    vop.op = "check" =>
        IF vop.arg = "NO_ERROR" THEN vop.ok
        ELSE ~vop.ok /\ vop.err.kind = KindNamed(vop.arg)

-----------------------------------------------------------------------------
(* Claims about the uniforms of a draw.                                    *)

\* C25: the uniform list handed to the device with a draw is the list of
\* (name, value) entries recorded with that draw, in order, and nothing more.
C25_UniformsPerDraw ==
    \A i \in 1..Len(xlog) :
        (xlog[i].list = "draw" /\ xlog[i].uniforms.resolved) =>
            xlog[i].uniforms.passed = xlog[i].uniforms.given

\* A draw with one uniform dispatched right after a draw of the same
\* dispatch that had two.
C25_Witness ==
    \E i \in 2..Len(xlog) :
        /\ xlog[i].list = "draw" /\ xlog[i - 1].list = "draw"
        /\ xlog[i].epoch = xlog[i - 1].epoch
        /\ xlog[i].ok /\ xlog[i - 1].ok
        /\ Len(xlog[i - 1].uniforms.passed) = 2
        /\ Len(xlog[i].uniforms.passed) = 1
        /\ xlog[i].uniforms.passed[1].name = <<233>>

-----------------------------------------------------------------------------
(* Claims about resolving a pointer.                                       *)

\* Whether the byte size of a pointer fits the type the accessor asks for.
SizeFits(kind, p) ==
    CASE kind = "ref"   -> p.size = SizeOfT
      [] kind = "slice" -> p.size % SizeOfT = 0
      [] OTHER -> TRUE

\* C26: resolving a pointer whose size does not fit the requested type, or
\* whose range ends beyond the buffer's length, is fatal and returns no view.
C26_MismatchIsFatal ==
    (res.kind # "none"
         /\ (~SizeFits(res.kind, res.ptr) \/ res.ptr.position + res.ptr.size > tb.len))
        => ~res.out.ok

\* as_slice refused, after a clear and a new append, for a pointer that lies
\* within the buffer but whose size is no multiple of the element size.
C26_Witness ==
    /\ nclear > 0
    /\ res.kind = "slice"
    /\ res.ptr.size = SizeOfT + 1
    /\ res.ptr.position + res.ptr.size <= tb.len
    /\ ~res.out.ok

-----------------------------------------------------------------------------
(* Claims about the active program and the location caches.                *)

\* C27: delete_program(p) sets the cached active program to None when it is
\* Some(p) and leaves it alone otherwise, and the first bind_program(p) of a
\* program created under an id that a deleted program had issues UseProgram.
C27_RebindAfterRecreate ==
    [][/\ vop'.op = "delete_program" =>
              vis'.active_program =
                  IF vis.active_program = Some(vop'.arg) THEN None
                  ELSE vis.active_program
       /\ (vop'.op = "bind_program"
               /\ Owned(vop'.arg)
               /\ plife[vop'.arg].lives > 1
               /\ ~plife[vop'.arg].bound) => vop'.calls = 1]_vars

\* The location the program object of the id's lifetime keeps a variable of
\* the kind the lookup asks for at.
OwnLocation(op, id, name) ==
    IF op = "get_attribute_location" THEN GlAttribLocationOf(plife[id].gen, name)
    ELSE GlUniformLocationOf(plife[id].gen, name)

\* C28: a lookup of a program's attribute is answered without a query only
\* when the same attribute was looked up before, and returns the attribute's
\* location, never the uniform's of that name; and the same for uniforms.
C28_IndependentLocationCaches ==
    (vop.op \in Lookups /\ vop.ok /\ Owned(vop.arg.id)) =>
        /\ vop.calls = 0 => vop.arg.repeated
        /\ vop.val = OwnLocation(vop.op, vop.arg.id, vop.arg.name)

-----------------------------------------------------------------------------
(* Claims about the depth-write and blend state of the context.            *)

\* Whether a depth offset asks for polygon-offset fill.
OffsetAsked(offset) == offset.some /\ (offset.val[1] # 0 \/ offset.val[2] # 0)

\* C29: after a successful set_depth_write, polygon-offset fill is enabled in
\* the context exactly when the cached offset is Some with a non-zero
\* component, and the context's depth mask is the cached depth-write flag.
C29_DepthWriteMirrored ==
    (vop.op = "set_depth_write" /\ vop.ok) =>
        /\ gl.polygon_offset_fill <=> OffsetAsked(vis.depth_write_offset)
        /\ gl.depth_writemask = vis.depth_write

\* C30: after a successful set_color_blend, blending is enabled in the
\* context exactly when the cached blend is Some, and then the context's
\* blend equation and factors are the cached ones.
C30_ColorBlendMirrored ==
    (vop.op = "set_color_blend" /\ vop.ok) =>
        /\ gl.blend <=> vis.color_blend.some
        /\ vis.color_blend.some =>
               /\ gl.blend_equation = vis.color_blend.val[1]
               /\ gl.blend_func = <<vis.color_blend.val[2], vis.color_blend.val[3]>>

\* Blending switched off by a call that follows one which had switched it
\* on with an equation other than the context's default.
C30_Witness ==
    /\ vop.op = "set_color_blend"
    /\ vop.ok
    /\ vop.calls = 1
    /\ vis.color_blend = None
    /\ ~gl.blend
    /\ gl.blend_equation = "Subtract"

-----------------------------------------------------------------------------
(* Claims about appending to the TaskBuffer.                               *)

\* The bytes of the buffer a pointer designates, as indices into the vector.
RangeOf(p) == (p.position + 1)..(p.position + p.size)

\* The pointers handed out since the last clear lie one after another from
\* the start of the buffer, and no two of them share a byte.
Contiguous(ptrs) ==
    /\ ptrs # <<>> => ptrs[1].ptr.position = 0
    /\ \A i \in 1..(Len(ptrs) - 1) :
           ptrs[i + 1].ptr.position = ptrs[i].ptr.position + ptrs[i].ptr.size
    /\ \A i, j \in 1..Len(ptrs) :
           i # j => RangeOf(ptrs[i].ptr) \cap RangeOf(ptrs[j].ptr) = {}

\* C31: an append leaves every byte stored before it unchanged and grows the
\* length by the appended size; the pointer it returns ends at the new length,
\* and the pointers returned since the last clear designate contiguous,
\* pairwise disjoint ranges.
C31_AppendOnly ==
    [][Len(live') = Len(live) + 1 =>
           LET p == live'[Len(live')].ptr
           IN  /\ SubSeq(tb'.mem, 1, tb.len) = SubSeq(tb.mem, 1, tb.len)
               /\ tb'.len = tb.len + p.size
               /\ p.position + p.size = tb'.len
               /\ Contiguous(live')]_vars

\* A value, a slice and a string appended one after another to a buffer that
\* was cleared before, each of them with bytes of its own.
C31_Witness ==
    /\ nclear > 0
    /\ Len(live) = MaxPtrs
    /\ \A i \in 1..Len(live) : live[i].ptr.size > 0
    /\ {live[i].kind : i \in 1..Len(live)} = {"ref", "slice", "str"}
    /\ live[Len(live)].ptr.position + live[Len(live)].ptr.size = tb.len

====
